---- MODULE Spec2Model ----
(***************************************************************************)
(* Model of the video performance analyzer (src/src/analyzer.ts).          *)
(*                                                                         *)
(* Number representation.  The source computes in IEEE doubles; the model  *)
(* computes the same expressions in exact rational arithmetic on integers: *)
(*   - a rate (playRate, engagement, conversionRate, unmuteRate) is an     *)
(*     integer number of thousandths (0.7 is 700, 0.005 is 5);             *)
(*   - a sub-score is an integer number of 1/ScoreDen score points, where  *)
(*     ScoreDen is the least common multiple of the band widths of         *)
(*     THRESHOLDS, so that every interpolation of normalizeToScore on a    *)
(*     rate in thousandths is an exact integer;                            *)
(*   - a weight is an integer number of hundredths (0.35 is 35);           *)
(*   - a relative drop is the exact fraction 100*drop/before, compared by  *)
(*     cross-multiplication; reported percentages are tenths of a percent. *)
(***************************************************************************)
EXTENDS Integers, Sequences, FiniteSets, TLC

VARIABLES
    pc,            \* position of the modelled call: "start" | "done"
    call,          \* which exported function the run calls
    metric,        \* normalizeToScore: metric name
    value,         \* normalizeToScore: first argument value (thousandths)
    value2,        \* normalizeToScore: second probe value (thousandths)
    score,         \* normalizeToScore(metric, value), in 1/ScoreDen points
    score2,        \* normalizeToScore(metric, value2), in 1/ScoreDen points
    stats,         \* VideoStats argument
    overallScore,  \* calculateScore(stats)
    overallRating, \* ratingFromScore(overallScore)
    points,        \* DropOffData.points
    totalViewers,  \* DropOffData.totalViewers
    drops,         \* result of findSignificantDrops
    recs,          \* result of generateRecommendations
    metrics,       \* VideoAnalysis.metrics
    videos,        \* analyzePortfolio: the videos argument
    allStats,      \* analyzePortfolio: the allStats argument
    summary,       \* result of analyzePortfolio
    lastSec,       \* getSegment: lastSecond, the second of the last point
    segment,       \* getSegment(value), with the way the loop ended
    segment2,      \* getSegment(value2), with the way the loop ended
    requests,      \* the calls of the inbound requests, with their arguments
    responses,     \* the value returned to each request, or Pending
    shared,        \* the module-level objects THRESHOLDS and WEIGHTS
    cache,         \* the cache directory: key -> CacheEntry file or NoFile
    now,           \* Date.now(), in seconds
    calls,         \* VidalyticsClient.request: the state of each call
    items,         \* fetchInBatches: the thunks, by the value each resolves to
    batchSize,     \* fetchInBatches: batchSize
    cursor,        \* fetchInBatches: the loop variable i
    itemState,     \* fetchInBatches: "idle" | "inflight" | "resolved" | "rejected"
    settled,       \* fetchInBatches: the items in the order their calls settled
    results,       \* fetchInBatches: the results array
    delays,        \* fetchInBatches: the cursor values at which a delay was taken
    fetchPc,       \* fetchInBatches: "loop" | "await" | "delay" | "returned" | "thrown"
    croReqs,       \* generate-cro-tests: the state of each request
    generations    \* generate-cro-tests: the calls of generateCROTests so far

portfolioVars == <<videos, allStats, summary>>
segmentVars == <<lastSec, segment, segment2>>
requestVars == <<requests, responses, shared>>
clientVars == <<cache, now, calls>>
batchVars == <<items, batchSize, cursor, itemState, settled, results, delays, fetchPc>>
croVars == <<croReqs, generations>>
serviceVars == <<clientVars, batchVars, croVars>>

vars == <<pc, call, metric, value, value2, score, score2, stats, overallScore,
          overallRating, points, totalViewers, drops, recs, metrics,
          portfolioVars, segmentVars, requestVars, serviceVars>>

(***************************************************************************)
(* Bounds of the model                                                     *)
(***************************************************************************)
\* probe values lie within Spread thousandths of every band boundary
Spread == 2
\* longest curve of the family with arbitrary (rising and falling) viewers
MaxPoints == 4
\* longest curve of the family of non-increasing retention curves
MaxLongPoints == 8
\* most videos in a portfolio
MaxVideos == 6
\* number of inbound requests served in one run
NumRequests == 3
\* longest timeline getSegment is probed on, in seconds
MaxLastSecond == 12
\* the clock stops here: one default TTL and three retry waits, in seconds
MaxNow == 14415
\* most thunks handed to fetchInBatches
MaxItems == 5
\* largest batchSize
MaxBatchSize == 3
\* most calls of generateCROTests in one run
MaxGenerations == 3
\* the clock of the generate-cro-tests runs stops after this many days
MaxDays == 8

(***************************************************************************)
(* Arithmetic helpers                                                      *)
(***************************************************************************)
RECURSIVE GCD(_, _)
GCD(a, b) == IF b = 0 THEN a ELSE GCD(b, a % b)

LCM(a, b) == (a * b) \div GCD(a, b)

RECURSIVE LCMSet(_)
LCMSet(S) ==
    IF S = {} THEN 1
    ELSE LET x == CHOOSE y \in S : TRUE IN LCM(x, LCMSet(S \ {x}))

Min(a, b) == IF a <= b THEN a ELSE b
Max(a, b) == IF a >= b THEN a ELSE b

\* Math.round: the nearest integer to num/den (den > 0), halves rounded up
MathRound(num, den) == (2 * num + den) \div (2 * den)

(***************************************************************************)
(* Thresholds and weights                                                  *)
(***************************************************************************)
THRESHOLDS ==
    [ playRate       |-> [excellent |-> 700, good |-> 500, average |-> 300, poor |-> 150],
      engagement     |-> [excellent |-> 600, good |-> 400, average |-> 250, poor |-> 150],
      conversionRate |-> [excellent |-> 50,  good |-> 30,  average |-> 15,  poor |-> 5],
      unmuteRate     |-> [excellent |-> 600, good |-> 400, average |-> 250, poor |-> 100] ]

Metrics == DOMAIN THRESHOLDS

WEIGHTS_engagement30 ==
    [engagement |-> 30, conversionRate |-> 25, playRate |-> 20, unmuteRate |-> 20]

WEIGHTS ==
    [engagement |-> 35, conversionRate |-> 25, playRate |-> 20, unmuteRate |-> 20]

\* the denominators normalizeToScore divides by, for one metric
BandWidths(m) ==
    LET t == THRESHOLDS[m]
    IN  {t.excellent, t.excellent - t.good, t.good - t.average,
         t.average - t.poor, t.poor}

\* one score point is ScoreDen units of the model's sub-scores
ScoreDen == LCMSet(UNION {BandWidths(m) : m \in Metrics})

(***************************************************************************)
(* rateMetric, normalizeToScore, calculateScore, ratingFromScore           *)
(***************************************************************************)
rateMetric(m, v) ==
    IF m \notin DOMAIN THRESHOLDS THEN "average"
    ELSE LET t == THRESHOLDS[m]
         IN  IF v >= t.excellent THEN "excellent"
             ELSE IF v >= t.good THEN "good"
             ELSE IF v >= t.average THEN "average"
             ELSE IF v >= t.poor THEN "poor"
             ELSE "critical"

\* mutant: the top band is not capped at 100
normalizeToScore_uncapped(m, v) ==
    IF m \notin DOMAIN THRESHOLDS THEN 50 * ScoreDen
    ELSE LET t == THRESHOLDS[m]
         IN  IF v >= t.excellent
                 THEN 80 * ScoreDen + ((v - t.excellent) * 20 * ScoreDen) \div t.excellent
             ELSE IF v >= t.good
                 THEN 60 * ScoreDen + ((v - t.good) * 20 * ScoreDen) \div (t.excellent - t.good)
             ELSE IF v >= t.average
                 THEN 40 * ScoreDen + ((v - t.average) * 20 * ScoreDen) \div (t.good - t.average)
             ELSE IF v >= t.poor
                 THEN 20 * ScoreDen + ((v - t.poor) * 20 * ScoreDen) \div (t.average - t.poor)
             ELSE Max(0, (v * 20 * ScoreDen) \div t.poor)

\* mutant: the lowest band interpolates up to 25 instead of 20
normalizeToScore_lowband25(m, v) ==
    IF m \notin DOMAIN THRESHOLDS THEN 50 * ScoreDen
    ELSE LET t == THRESHOLDS[m]
         IN  IF v >= t.excellent
                 THEN Min(100 * ScoreDen,
                          80 * ScoreDen + ((v - t.excellent) * 20 * ScoreDen) \div t.excellent)
             ELSE IF v >= t.good
                 THEN 60 * ScoreDen + ((v - t.good) * 20 * ScoreDen) \div (t.excellent - t.good)
             ELSE IF v >= t.average
                 THEN 40 * ScoreDen + ((v - t.average) * 20 * ScoreDen) \div (t.good - t.average)
             ELSE IF v >= t.poor
                 THEN 20 * ScoreDen + ((v - t.poor) * 20 * ScoreDen) \div (t.average - t.poor)
             ELSE Max(0, (v * 25 * ScoreDen) \div t.poor)

\* mutant: the good band starts at 65 instead of 60
normalizeToScore_good65(m, v) ==
    IF m \notin DOMAIN THRESHOLDS THEN 50 * ScoreDen
    ELSE LET t == THRESHOLDS[m]
         IN  IF v >= t.excellent
                 THEN Min(100 * ScoreDen,
                          80 * ScoreDen + ((v - t.excellent) * 20 * ScoreDen) \div t.excellent)
             ELSE IF v >= t.good
                 THEN 65 * ScoreDen + ((v - t.good) * 15 * ScoreDen) \div (t.excellent - t.good)
             ELSE IF v >= t.average
                 THEN 40 * ScoreDen + ((v - t.average) * 20 * ScoreDen) \div (t.good - t.average)
             ELSE IF v >= t.poor
                 THEN 20 * ScoreDen + ((v - t.poor) * 20 * ScoreDen) \div (t.average - t.poor)
             ELSE Max(0, (v * 20 * ScoreDen) \div t.poor)

normalizeToScore(m, v) ==
    IF m \notin DOMAIN THRESHOLDS THEN 50 * ScoreDen
    ELSE LET t == THRESHOLDS[m]
         IN  IF v >= t.excellent
                 THEN Min(100 * ScoreDen,
                          80 * ScoreDen + ((v - t.excellent) * 20 * ScoreDen) \div t.excellent)
             ELSE IF v >= t.good
                 THEN 60 * ScoreDen + ((v - t.good) * 20 * ScoreDen) \div (t.excellent - t.good)
             ELSE IF v >= t.average
                 THEN 40 * ScoreDen + ((v - t.average) * 20 * ScoreDen) \div (t.good - t.average)
             ELSE IF v >= t.poor
                 THEN 20 * ScoreDen + ((v - t.poor) * 20 * ScoreDen) \div (t.average - t.poor)
             ELSE Max(0, (v * 20 * ScoreDen) \div t.poor)

calculateScore(s) ==
    LET scores ==
            [engagement     |-> normalizeToScore("engagement", s.engagement),
             conversionRate |-> normalizeToScore("conversionRate", s.conversionRate),
             playRate       |-> normalizeToScore("playRate", s.playRate),
             unmuteRate     |-> normalizeToScore("unmuteRate", s.unmuteRate)]
    IN  MathRound(scores.engagement * WEIGHTS.engagement
                    + scores.conversionRate * WEIGHTS.conversionRate
                    + scores.playRate * WEIGHTS.playRate
                    + scores.unmuteRate * WEIGHTS.unmuteRate,
                  100 * ScoreDen)

\* mutant: the band boundaries are exclusive
ratingFromScore_exclusive(sc) ==
    IF sc > 80 THEN "excellent"
    ELSE IF sc > 60 THEN "good"
    ELSE IF sc > 40 THEN "average"
    ELSE IF sc > 20 THEN "poor"
    ELSE "critical"

ratingFromScore(sc) ==
    IF sc >= 80 THEN "excellent"
    ELSE IF sc >= 60 THEN "good"
    ELSE IF sc >= 40 THEN "average"
    ELSE IF sc >= 20 THEN "poor"
    ELSE "critical"

(***************************************************************************)
(* Inputs of the scoring functions                                         *)
(***************************************************************************)
\* the band boundaries of a metric, with 0 and the value where the top band
\* reaches its cap of 100
Anchors(m) ==
    LET t == THRESHOLDS[m]
    IN  {0, t.poor, t.average, t.good, t.excellent, 2 * t.excellent}

\* values probed for one metric: around every anchor, the middle of every
\* band, one clearly negative and one far above the cap
ProbeValues(m) ==
    LET t == THRESHOLDS[m]
    IN  {a + d : a \in Anchors(m), d \in (0 - Spread)..Spread}
        \cup {(t.poor + t.average) \div 2, (t.average + t.good) \div 2,
              (t.good + t.excellent) \div 2, (3 * t.excellent) \div 2}
        \cup {0 - t.excellent, 3 * t.excellent}

\* values of one metric inside a VideoStats: one below zero, zero, every
\* threshold and the value one thousandth below it, inside the top band, at
\* and above the cap.  No weighted sum of these values ends in .5, where the
\* doubles of the source and the exact sum could round apart.
StatValues(m) ==
    LET t == THRESHOLDS[m]
    IN  {0 - t.poor, 0, t.poor, t.average, t.good, t.excellent,
         (5 * t.excellent) \div 4, 3 * t.excellent}
        \cup {t.poor - 1, t.average - 1, t.good - 1, t.excellent - 1}

NoStats ==
    [videoId |-> "v1", playRate |-> 0, engagement |-> 0, conversionRate |-> 0,
     unmuteRate |-> 0, conversionCount |-> 0, revenue |-> 0, plays |-> 0]

RateStats(p, e, c, u) ==
    [NoStats EXCEPT !.playRate = p, !.engagement = e,
                    !.conversionRate = c, !.unmuteRate = u]

(***************************************************************************)
(* Specification SpecScore: one call of normalizeToScore on two values of  *)
(* a metric, or one call of calculateScore on a VideoStats                 *)
(***************************************************************************)
NoScore == 0 - 1

\* the module-level objects as the module initialises them
ModuleState == [THRESHOLDS |-> THRESHOLDS, WEIGHTS |-> WEIGHTS]

\* the parts of the state a run of another function leaves as constructed
NoPortfolio == videos = <<>> /\ allStats = <<>> /\ summary = <<>>
NoSegment == lastSec = 0 /\ segment = <<>> /\ segment2 = <<>>
NoRequests == requests = <<>> /\ responses = <<>> /\ shared = ModuleState
NoClient == cache = <<>> /\ now = 0 /\ calls = <<>>
NoBatches ==
    /\ items = <<>>
    /\ batchSize = 0
    /\ cursor = 0
    /\ itemState = <<>>
    /\ settled = <<>>
    /\ results = <<>>
    /\ delays = {}
    /\ fetchPc = "none"
NoCro == croReqs = <<>> /\ generations = <<>>
NoServices == NoClient /\ NoBatches /\ NoCro

InitScore ==
    /\ pc = "start"
    /\ \/ /\ call = "normalizeToScore"
          /\ metric \in Metrics
          /\ value \in ProbeValues(metric)
          /\ value2 \in ProbeValues(metric)
          /\ stats = NoStats
       \/ /\ call = "calculateScore"
          /\ metric = "none"
          /\ value = 0
          /\ value2 = 0
          /\ stats \in {RateStats(p, e, c, u) :
                            p \in StatValues("playRate"),
                            e \in StatValues("engagement"),
                            c \in StatValues("conversionRate"),
                            u \in StatValues("unmuteRate")}
    /\ score = NoScore
    /\ score2 = NoScore
    /\ overallScore = NoScore
    /\ overallRating = "none"
    /\ points = <<>>
    /\ totalViewers = 0
    /\ drops = <<>>
    /\ recs = <<>>
    /\ metrics = <<>>
    /\ NoPortfolio
    /\ NoServices
    /\ NoSegment
    /\ NoRequests

NormalizeToScore ==
    /\ pc = "start"
    /\ call = "normalizeToScore"
    /\ score' = normalizeToScore(metric, value)
    /\ score2' = normalizeToScore(metric, value2)
    /\ pc' = "done"
    /\ UNCHANGED <<call, metric, value, value2, stats, overallScore, overallRating,
                   points, totalViewers, drops, recs, metrics>>
    /\ UNCHANGED <<portfolioVars, segmentVars, requestVars, serviceVars>>

CalculateScore ==
    /\ pc = "start"
    /\ call = "calculateScore"
    /\ overallScore' = calculateScore(stats)
    /\ overallRating' = ratingFromScore(calculateScore(stats))
    /\ pc' = "done"
    /\ UNCHANGED <<call, metric, value, value2, score, score2, stats,
                   points, totalViewers, drops, recs, metrics>>
    /\ UNCHANGED <<portfolioVars, segmentVars, requestVars, serviceVars>>

NextScore == NormalizeToScore \/ CalculateScore

SpecScore == InitScore /\ [][NextScore]_vars

(***************************************************************************)
(* Claims about the scoring functions (checked under SpecScore)            *)
(***************************************************************************)
\* C1: for each tracked metric normalizeToScore is monotonically
\* non-decreasing over the whole input range (negative values, the five
\* bands, values above the excellent threshold): value <= value2 implies
\* score(value) <= score(value2).
C1_ScoreMonotone ==
    (pc = "done" /\ call = "normalizeToScore" /\ value <= value2)
        => score <= score2

\* C1 witness: a negative value and a value above the excellent threshold
\* of the same metric have been scored, and the scores differ.
C1_Witness ==
    /\ pc = "done"
    /\ call = "normalizeToScore"
    /\ value < 0
    /\ value2 > THRESHOLDS[metric].excellent
    /\ score = 0
    /\ score2 > 80 * ScoreDen

\* the score a value equal to the named threshold must get
BoundaryScore ==
    [poor |-> 20, average |-> 40, good |-> 60, excellent |-> 80]

\* the width of the band that ends at the named threshold
WidthBelow(m, band) ==
    LET t == THRESHOLDS[m]
    IN  CASE band = "poor"      -> t.poor
          [] band = "average"   -> t.average - t.poor
          [] band = "good"      -> t.good - t.average
          [] band = "excellent" -> t.excellent - t.good

\* C2: a value equal to the poor, average, good or excellent threshold
\* scores exactly 20, 40, 60, 80, and the band just below the threshold
\* reaches the same value: one thousandth below the threshold the score is
\* lower by exactly one step of that band's slope (20 / band width), so the
\* score has no jump at the threshold.
C2_ThresholdContinuity ==
    (pc = "done" /\ call = "normalizeToScore")
        => \A band \in DOMAIN BoundaryScore :
              value2 = THRESHOLDS[metric][band]
                  => /\ score2 = BoundaryScore[band] * ScoreDen
                     /\ value = value2 - 1
                           => score2 - score
                                = (20 * ScoreDen) \div WidthBelow(metric, band)

\* C2 witness: engagement 0.6 scored 80, together with engagement 0.599.
C2_Witness ==
    /\ pc = "done"
    /\ call = "normalizeToScore"
    /\ metric = "engagement"
    /\ value2 = 600
    /\ value = 599
    /\ score2 = 80 * ScoreDen
    /\ score < score2

\* C3: calculateScore returns an integer in [0,100] for every VideoStats,
\* including metrics that are zero, negative or far above the excellent
\* threshold; each sub-score lies in [0,100] before weighting.
C3_ScoreInRange ==
    (pc = "done" /\ call = "calculateScore")
        => /\ overallScore \in 0..100
           /\ \A m \in Metrics :
                 /\ normalizeToScore(m, stats[m]) >= 0
                 /\ normalizeToScore(m, stats[m]) <= 100 * ScoreDen

\* C3 witness: a scored VideoStats with a negative metric, a zero metric and
\* a metric far above the point where its sub-score reaches 100.
C3_Witness ==
    /\ pc = "done"
    /\ call = "calculateScore"
    /\ stats.playRate < 0
    /\ stats.unmuteRate = 0
    /\ stats.engagement > 2 * THRESHOLDS.engagement.excellent
    /\ overallScore \in 0..100

\* C4: the four weights sum to exactly 1.0 (100 hundredths), and stats whose
\* four metrics are each at or above their excellent threshold score >= 80
\* and rate "excellent".
C4_WeightsAndExcellent ==
    /\ WEIGHTS.engagement + WEIGHTS.conversionRate
         + WEIGHTS.playRate + WEIGHTS.unmuteRate = 100
    /\ (/\ pc = "done"
        /\ call = "calculateScore"
        /\ \A m \in Metrics : stats[m] >= THRESHOLDS[m].excellent)
          => /\ overallScore >= 80
             /\ overallRating = "excellent"

\* C4 witness: every metric exactly at its excellent threshold scores 80.
C4_Witness ==
    /\ pc = "done"
    /\ call = "calculateScore"
    /\ \A m \in Metrics : stats[m] = THRESHOLDS[m].excellent
    /\ overallScore = 80
    /\ overallRating = "excellent"

(***************************************************************************)
(* findSignificantDrops                                                    *)
(*                                                                         *)
(* A DropOffPoint is [second, formattedTime, viewers]; sequences are       *)
(* 1-based, so the source's points[i] is points[i + 1] here and idx is the *)
(* 1-based position of the later point of an interval.  A relative drop    *)
(* (drop / before.viewers) * 100 is the exact fraction [num, den].         *)
(***************************************************************************)
\* formatSeconds: `${Math.floor(sec / 60)}:${(sec % 60) padded to 2}`; the
\* two numbers of the string (JavaScript's % takes the sign of sec)
formatSeconds(sec) ==
    [m |-> sec \div 60,
     s |-> IF sec >= 0 THEN sec % 60 ELSE 0 - ((0 - sec) % 60)]

Point(sec, v) == [second |-> sec, formattedTime |-> formatSeconds(sec), viewers |-> v]

SegmentNames == <<"early", "mid-early", "mid-late", "late">>

\* mutant: the late segment ends at lastSecond instead of lastSecond + 1
segmentBounds_lateEndsAtLast(lastSecond) ==
    << [name |-> "early",     start |-> 0,              end |-> lastSecond],
       [name |-> "mid-early", start |-> lastSecond,     end |-> 2 * lastSecond],
       [name |-> "mid-late",  start |-> 2 * lastSecond, end |-> 3 * lastSecond],
       [name |-> "late",      start |-> 3 * lastSecond, end |-> 4 * lastSecond] >>

\* segmentBounds, every bound multiplied by 4 (lastSecond * 0.25 is exact)
segmentBounds(lastSecond) ==
    << [name |-> "early",     start |-> 0,              end |-> lastSecond],
       [name |-> "mid-early", start |-> lastSecond,     end |-> 2 * lastSecond],
       [name |-> "mid-late",  start |-> 2 * lastSecond, end |-> 3 * lastSecond],
       [name |-> "late",      start |-> 3 * lastSecond, end |-> 4 * (lastSecond + 1)] >>

\* the segments whose [start, end) holds second
SegmentHits(second, lastSecond) ==
    {k \in 1..4 : /\ 4 * second >= segmentBounds(lastSecond)[k].start
                  /\ 4 * second < segmentBounds(lastSecond)[k].end}

\* the first segment whose [start, end) holds second, else "late"
getSegment(second, lastSecond) ==
    LET bounds == segmentBounds(lastSecond)
        hits == {k \in 1..Len(bounds) :
                    4 * second >= bounds[k].start /\ 4 * second < bounds[k].end}
    IN  IF hits = {} THEN "late"
        ELSE bounds[CHOOSE k \in hits : \A j \in hits : k <= j].name

\* mutant: the loss is taken relative to the viewers left after the interval
RelativeDrop_ofAfter(drop, beforeViewers) ==
    IF beforeViewers - drop > 0
        THEN LET g == GCD(100 * drop, beforeViewers - drop)
             IN  [num |-> (100 * drop) \div g, den |-> (beforeViewers - drop) \div g]
        ELSE [num |-> 0, den |-> 1]

\* before.viewers > 0 ? (drop / before.viewers) * 100 : 0, in lowest terms
RelativeDrop(drop, beforeViewers) ==
    IF beforeViewers > 0
        THEN LET g == GCD(100 * drop, beforeViewers)
             IN  [num |-> (100 * drop) \div g, den |-> beforeViewers \div g]
        ELSE [num |-> 0, den |-> 1]

\* mutant: intervals without a loss are not skipped
RECURSIVE AllDropsFrom_keepNonPositive(_, _, _)
AllDropsFrom_keepNonPositive(pts, tv, i) ==
    IF i > Len(pts) THEN <<>>
    ELSE LET drop == pts[i - 1].viewers - pts[i].viewers
         IN  << [idx |-> i,
                 drop |-> drop,
                 relativeDrop |-> RelativeDrop(drop, pts[i - 1].viewers),
                 dropPct |-> IF tv > 0 THEN [num |-> 100 * drop, den |-> tv]
                                       ELSE [num |-> 0, den |-> 1],
                 segment |-> getSegment(pts[i].second,
                                        pts[Len(pts)].second)] >>
             \o AllDropsFrom_keepNonPositive(pts, tv, i + 1)

\* the loop over consecutive points from position i on: one entry for every
\* interval with a positive loss
RECURSIVE AllDropsFrom(_, _, _)
AllDropsFrom(pts, tv, i) ==
    IF i > Len(pts) THEN <<>>
    ELSE LET drop == pts[i - 1].viewers - pts[i].viewers
         IN  IF drop <= 0 THEN AllDropsFrom(pts, tv, i + 1)
             ELSE << [idx |-> i,
                      drop |-> drop,
                      relativeDrop |-> RelativeDrop(drop, pts[i - 1].viewers),
                      dropPct |-> IF tv > 0 THEN [num |-> 100 * drop, den |-> tv]
                                            ELSE [num |-> 0, den |-> 1],
                      segment |-> getSegment(pts[i].second,
                                             pts[Len(pts)].second)] >>
                  \o AllDropsFrom(pts, tv, i + 1)

allDrops(pts, tv) == AllDropsFrom(pts, tv, 2)

\* a common denominator of the relative drops of a list
RelDen(ds) == LCMSet({ds[k].relativeDrop.den : k \in 1..Len(ds)})

\* relativeDrop of d as a multiple of 1/den
Scaled(d, den) == d.relativeDrop.num * (den \div d.relativeDrop.den)

RECURSIVE SumScaled(_, _)
SumScaled(ds, den) ==
    IF ds = <<>> THEN 0 ELSE Scaled(Head(ds), den) + SumScaled(Tail(ds), den)

\* mutant: the threshold is 3 times the average
IsSignificant_3x(d, ds) ==
    LET den == RelDen(ds)
    IN  Len(ds) * Scaled(d, den) > 3 * SumScaled(ds, den)

\* d.relativeDrop > avgRelDrop * 1.5, with avgRelDrop the mean over ds
\* (ds is not empty when this is asked): 2 * n * r > 3 * sum
IsSignificant(d, ds) ==
    LET den == RelDen(ds)
    IN  2 * Len(ds) * Scaled(d, den) > 3 * SumScaled(ds, den)

\* mutant: every positive drop is kept
significantOf_all(ds) == ds

significantOf(ds) == SelectSeq(ds, LAMBDA d : IsSignificant(d, ds))

\* a.relativeDrop > b.relativeDrop
RelGreater(a, b) ==
    a.relativeDrop.num * b.relativeDrop.den > b.relativeDrop.num * a.relativeDrop.den

\* mutant: the segment's drops are not sorted before the cut
SortByRelativeDropDesc_none(ds) == ds

\* segDrops.sort((a, b) => b.relativeDrop - a.relativeDrop): stable, descending
RECURSIVE SortByRelativeDropDesc(_)
SortByRelativeDropDesc(ds) ==
    IF Len(ds) <= 1 THEN ds
    ELSE LET rest == SortByRelativeDropDesc(Tail(ds))
             x == Head(ds)
             k == Cardinality({j \in 1..Len(rest) : RelGreater(rest[j], x)})
         IN  SubSeq(rest, 1, k) \o <<x>> \o SubSeq(rest, k + 1, Len(rest))

\* mutant: the selection is returned in selection order
SortBySecond_none(sel) == sel

\* selected.sort((a, b) => a.second - b.second): stable, ascending
RECURSIVE SortBySecond(_)
SortBySecond(sel) ==
    IF Len(sel) <= 1 THEN sel
    ELSE LET rest == SortBySecond(Tail(sel))
             x == Head(sel)
             k == Cardinality({j \in 1..Len(rest) : rest[j].second < x.second})
         IN  SubSeq(rest, 1, k) \o <<x>> \o SubSeq(rest, k + 1, Len(rest))

\* mutant: a segment may contribute 4 entries
maxPerSegment_4(segName) == 4

maxPerSegment(segName) == 3

\* mutant: the bands are applied to the value rounded to one decimal
Severity_onRounded(r) ==
    IF MathRound(10 * r.num, r.den) >= 200 THEN "critical"
    ELSE IF MathRound(10 * r.num, r.den) >= 120 THEN "poor"
    ELSE IF MathRound(10 * r.num, r.den) >= 70 THEN "average"
    ELSE "good"

\* severity of a relative drop
Severity(r) ==
    IF r.num >= 20 * r.den THEN "critical"
    ELSE IF r.num >= 12 * r.den THEN "poor"
    ELSE IF r.num >= 7 * r.den THEN "average"
    ELSE "good"

\* Math.round(x * 10) / 10 as a number of tenths
RoundTenths(r) == MathRound(10 * r.num, r.den)

\* the record pushed to selected for the drop d
SignificantDrop(pts, d) ==
    [second        |-> pts[d.idx].second,
     formattedTime |-> pts[d.idx].formattedTime,
     dropPercentage |-> RoundTenths(d.dropPct),
     relativeDrop  |-> RoundTenths(d.relativeDrop),
     viewersBefore |-> pts[d.idx - 1].viewers,
     viewersAfter  |-> pts[d.idx].viewers,
     severity      |-> Severity(d.relativeDrop),
     segment       |-> d.segment]

\* the entries one segment contributes: its significant drops sorted by
\* relative drop, cut to the segment's limit
SegmentSelection(pts, significant, segName) ==
    LET segDrops == SortByRelativeDropDesc(
                        SelectSeq(significant, LAMBDA d : d.segment = segName))
        kept == SubSeq(segDrops, 1, Min(Len(segDrops), maxPerSegment(segName)))
    IN  [k \in 1..Len(kept) |-> SignificantDrop(pts, kept[k])]

\* selected, before the final sort: the segments in the order of bySegment
selectedOf(pts, tv) ==
    LET significant == significantOf(allDrops(pts, tv))
    IN  SegmentSelection(pts, significant, "early")
          \o SegmentSelection(pts, significant, "mid-early")
          \o SegmentSelection(pts, significant, "mid-late")
          \o SegmentSelection(pts, significant, "late")

\* mutant: the guard on the last second is missing
findSignificantDrops_noLastSecondGuard(pts, tv) ==
    IF Len(pts) < 3 THEN <<>>
    ELSE SortBySecond(selectedOf(pts, tv))

findSignificantDrops(pts, tv) ==
    IF Len(pts) < 3 THEN <<>>
    ELSE IF pts[Len(pts)].second <= 0 THEN <<>>
    ELSE SortBySecond(selectedOf(pts, tv))

(***************************************************************************)
(* Inputs of findSignificantDrops.  As getDropOff builds them, the points  *)
(* of a curve have strictly ascending seconds and totalViewers is the      *)
(* viewer count of the first point (0 for an empty curve).                 *)
(*                                                                         *)
(* The viewer counts are chosen so that on no curve of the two families a  *)
(* relative drop equals 1.5 times the mean exactly: there the comparison   *)
(* in doubles depends on rounding, everywhere else it agrees with the      *)
(* exact comparison made here.                                             *)
(***************************************************************************)
\* gaps between consecutive sampled seconds
Gaps == {1, 10}

\* second of the first sample; a curve that starts at -30 ends at or before 0
\* as long as it has no more than four points ten seconds apart
StartSeconds == {0, 0 - 30}

\* viewer counts of the curves with arbitrary shape
ShortLevels == {0, 38, 40, 98, 100}

\* viewer counts of the non-increasing curves: small losses at the top of
\* the ladder, large ones below
LongLevels == {100, 95, 90, 80, 40, 20, 10, 4}

\* the non-increasing curves are sampled every second, or every ten seconds
\* up to the sample with this index and every second after it
LongSwitches == {0, 3}

\* every curve of exactly n points over ShortLevels
RECURSIVE ShortCurves(_)
ShortCurves(n) ==
    IF n = 0 THEN {<<>>}
    ELSE IF n = 1 THEN {<<Point(s, v)>> : s \in StartSeconds, v \in ShortLevels}
    ELSE {Append(c, Point(c[n - 1].second + g, v)) :
              c \in ShortCurves(n - 1), g \in Gaps, v \in ShortLevels}

\* every non-increasing curve of exactly n points over LongLevels, sampled
\* as the switch index sw says
RECURSIVE LongCurves(_, _)
LongCurves(n, sw) ==
    IF n = 0 THEN {<<>>}
    ELSE IF n = 1 THEN {<<Point(0, v)>> : v \in LongLevels}
    ELSE UNION {
            {Append(c, Point(c[n - 1].second + (IF n - 1 <= sw THEN 10 ELSE 1), v)) :
                 v \in {w \in LongLevels : w <= c[n - 1].viewers}} :
            c \in LongCurves(n - 1, sw)}

\* getDropOff: totalViewers of a curve
TotalViewersOf(pts) == IF Len(pts) > 0 THEN pts[1].viewers ELSE 0

\* a curve sampled every sec seconds with the given viewer counts
EvenCurve(sec, viewers) ==
    [k \in 1..Len(viewers) |-> Point((k - 1) * sec, viewers[k])]

\* curves whose flagged interval has a relative drop just below a severity
\* edge: 11/92 = 11.957 %, 80/401 = 19.950 % and 6/86 = 6.977 %
EdgeCurves ==
    {EvenCurve(10, <<93, 92, 81, 80>>),
     EvenCurve(10, <<401, 321, 321, 320>>),
     EvenCurve(10, <<86, 80, 80, 79>>)}

(***************************************************************************)
(* Specification SpecDrops: one call of findSignificantDrops               *)
(***************************************************************************)
InitDrops ==
    /\ pc = "start"
    /\ call = "findSignificantDrops"
    /\ \/ \E n \in 0..MaxPoints : points \in ShortCurves(n)
       \/ \E n \in (MaxPoints + 1)..MaxLongPoints, sw \in LongSwitches :
              points \in LongCurves(n, sw)
       \/ points \in EdgeCurves
    /\ totalViewers = TotalViewersOf(points)
    /\ metric = "none"
    /\ value = 0
    /\ value2 = 0
    /\ stats = NoStats
    /\ score = NoScore
    /\ score2 = NoScore
    /\ overallScore = NoScore
    /\ overallRating = "none"
    /\ drops = <<>>
    /\ recs = <<>>
    /\ metrics = <<>>
    /\ NoPortfolio
    /\ NoServices
    /\ NoSegment
    /\ NoRequests

FindSignificantDrops ==
    /\ pc = "start"
    /\ call = "findSignificantDrops"
    /\ drops' = findSignificantDrops(points, totalViewers)
    /\ pc' = "done"
    /\ UNCHANGED <<call, metric, value, value2, score, score2, stats, overallScore,
                   overallRating, points, totalViewers, recs, metrics>>
    /\ UNCHANGED <<portfolioVars, segmentVars, requestVars, serviceVars>>

NextDrops == FindSignificantDrops

SpecDrops == InitDrops /\ [][NextDrops]_vars

(***************************************************************************)
(* Claims about findSignificantDrops (checked under SpecDrops)             *)
(***************************************************************************)
Returned == pc = "done" /\ call = "findSignificantDrops"

\* the positive-loss intervals of the current curve, and the flagged ones
CurveDrops == allDrops(points, totalViewers)
CurveSignificant == significantOf(CurveDrops)

\* the call got past both early returns
PastGuards == Len(points) >= 3 /\ points[Len(points)].second > 0

\* the result holds an entry for the interval d
IsReturned(d) ==
    \E k \in 1..Len(drops) :
        /\ drops[k].second = points[d.idx].second
        /\ drops[k].viewersBefore = points[d.idx - 1].viewers
        /\ drops[k].viewersAfter = points[d.idx].viewers

\* C5: findSignificantDrops returns the empty list whenever the curve has
\* fewer than 3 points (including none) or its last point's second is <= 0,
\* whatever the viewer counts are.
C5_EmptyOnDegenerateCurve ==
    (Returned /\ (Len(points) < 3 \/ points[Len(points)].second <= 0))
        => drops = <<>>

\* C5 witness: a curve of at least 3 points whose last second is <= 0 and
\* which holds an interval above 1.5 times the mean has returned nothing.
C5_Witness ==
    /\ Returned
    /\ Len(points) >= 3
    /\ points[Len(points)].second <= 0
    /\ CurveSignificant # <<>>
    /\ drops = <<>>

\* C6: the returned list is sorted ascending by second.
C6_SortedBySecond ==
    Returned => \A k \in 1..(Len(drops) - 1) : drops[k].second <= drops[k + 1].second

\* C6 witness: a result of several entries whose order differs from the
\* order of selection (per segment, descending relative drop).
C6_Witness ==
    /\ Returned
    /\ Len(drops) >= 2
    /\ drops # selectedOf(points, totalViewers)

\* the flagged intervals of the current curve that lie in segment seg
FlaggedIn(seg) == SelectSeq(CurveSignificant, LAMBDA d : d.segment = seg)

\* C7: each of the four segments contributes at most 3 entries (at most 12
\* in total), and when more than 3 intervals of a segment are flagged the
\* segment contributes exactly 3, none of which has a smaller relative drop
\* than a flagged interval of the segment that was left out.
C7_SegmentCap ==
    Returned =>
        /\ Len(drops) <= 12
        /\ \A n \in 1..Len(SegmentNames) :
              LET seg == SegmentNames[n]
                  flagged == FlaggedIn(seg)
                  out == SelectSeq(drops, LAMBDA r : r.segment = seg)
              IN  /\ Len(out) <= 3
                  /\ (PastGuards /\ Len(flagged) > 3) =>
                        /\ Len(out) = 3
                        /\ \A i, j \in 1..Len(flagged) :
                              (IsReturned(flagged[i]) /\ ~IsReturned(flagged[j]))
                                  => ~RelGreater(flagged[j], flagged[i])

\* C7 witness: more than 3 intervals of one segment are flagged, and an
\* earlier one is left out while a later, steeper one is returned.
C7_Witness ==
    /\ Returned
    /\ \E n \in 1..Len(SegmentNames) :
          LET flagged == FlaggedIn(SegmentNames[n])
          IN  /\ Len(flagged) > 3
              /\ \E i, j \in 1..Len(flagged) :
                    /\ i < j
                    /\ ~IsReturned(flagged[i])
                    /\ IsReturned(flagged[j])
                    /\ RelGreater(flagged[j], flagged[i])

\* the points are well-formed DropOffPoints: seconds are not negative
WellFormedSeconds == \A k \in 1..Len(points) : points[k].second >= 0

\* the viewer counts fall strictly from every point to the next
StrictlyDecreasing ==
    \A k \in 2..Len(points) : points[k].viewers < points[k - 1].viewers

\* d's relative drop is more than 3 times that of every other interval
IsOutlier(d) ==
    \A k \in 1..Len(CurveDrops) :
        CurveDrops[k].idx # d.idx =>
            d.relativeDrop.num * CurveDrops[k].relativeDrop.den
                > 3 * CurveDrops[k].relativeDrop.num * d.relativeDrop.den

\* C8: on a curve of at least 3 well-formed points whose viewer counts fall
\* strictly from point to point, an interval whose relative drop is more
\* than three times the relative drop of every other interval is returned.
C8_OutlierFlagged ==
    (Returned /\ Len(points) >= 3 /\ WellFormedSeconds /\ StrictlyDecreasing)
        => \A k \in 1..Len(CurveDrops) :
              IsOutlier(CurveDrops[k]) => IsReturned(CurveDrops[k])

\* C8 witness: a strictly decreasing curve of more than 3 points with one
\* outlier interval, which is the only entry returned.
C8_Witness ==
    /\ Returned
    /\ Len(points) > 3
    /\ WellFormedSeconds
    /\ StrictlyDecreasing
    /\ \E k \in 1..Len(CurveDrops) :
          IsOutlier(CurveDrops[k]) /\ IsReturned(CurveDrops[k])
    /\ Len(drops) = 1

\* the curve of the example scenario
ExamplePoints == <<Point(0, 100), Point(10, 98), Point(20, 40), Point(30, 38)>>

\* C9: for points (0,100),(10,98),(20,40),(30,38) with totalViewers = 100
\* the result is exactly one drop: second 20, viewersBefore 98,
\* viewersAfter 40, relativeDrop 59.2, dropPercentage 58, severity
\* critical, segment mid-late, the quartile [15, 22.5) of lastSecond = 30.
C9_ExampleScenario ==
    (Returned /\ points = ExamplePoints /\ totalViewers = 100)
        => /\ drops = << [second         |-> 20,
                          formattedTime  |-> [m |-> 0, s |-> 20],
                          dropPercentage |-> 580,
                          relativeDrop   |-> 592,
                          viewersBefore  |-> 98,
                          viewersAfter   |-> 40,
                          severity       |-> "critical",
                          segment        |-> "mid-late"] >>
           /\ segmentBounds(30)[3] = [name |-> "mid-late", start |-> 4 * 15, end |-> 90]

\* C9 witness: the example curve has been analysed and one drop returned.
C9_Witness ==
    /\ Returned
    /\ points = ExamplePoints
    /\ totalViewers = 100
    /\ Len(drops) = 1

(***************************************************************************)
(* generateRecommendations and analyzeVideo                                *)
(*                                                                         *)
(* A Recommendation is [type, metric, title] with the values its text      *)
(* embeds for a drop-off entry (formattedTime, dropPercentage,             *)
(* viewersBefore, viewersAfter); the fixed prose is left out.              *)
(***************************************************************************)
NoTime == [m |-> 0, s |-> 0]

Rec(type, m, title) ==
    [type |-> type, metric |-> m, title |-> title, formattedTime |-> NoTime,
     dropPercentage |-> 0, viewersBefore |-> 0, viewersAfter |-> 0]

\* mutant: every drop-off entry is a warning
DropRec_alwaysWarning(drop) ==
    [type |-> "warning",
     metric |-> "dropOff",
     title |-> "Major Drop-off at",
     formattedTime |-> drop.formattedTime,
     dropPercentage |-> drop.dropPercentage,
     viewersBefore |-> drop.viewersBefore,
     viewersAfter |-> drop.viewersAfter]

DropRec(drop) ==
    [type |-> IF drop.severity = "critical" THEN "critical" ELSE "warning",
     metric |-> "dropOff",
     title |-> "Major Drop-off at",
     formattedTime |-> drop.formattedTime,
     dropPercentage |-> drop.dropPercentage,
     viewersBefore |-> drop.viewersBefore,
     viewersAfter |-> drop.viewersAfter]

Low(rating) == rating = "critical" \/ rating = "poor"
High(rating) == rating = "good" \/ rating = "excellent"

\* mutant: the entry for an excellent play rate is missing
PlayRateRecs_lowOnly(s) ==
    LET playRating == rateMetric("playRate", s.playRate)
    IN  IF Low(playRating)
            THEN <<Rec(IF playRating = "critical" THEN "critical" ELSE "warning",
                       "playRate", "Low Play Rate")>>
        ELSE <<>>

\* Play Rate Analysis
PlayRateRecs(s) ==
    LET playRating == rateMetric("playRate", s.playRate)
    IN  IF Low(playRating)
            THEN <<Rec(IF playRating = "critical" THEN "critical" ELSE "warning",
                       "playRate", "Low Play Rate")>>
        ELSE IF playRating = "excellent"
            THEN <<Rec("positive", "playRate", "Strong Play Rate")>>
        ELSE <<>>

\* mutant: the types of the two ratings are exchanged
EngagementRecs_typesSwapped(s) ==
    LET engRating == rateMetric("engagement", s.engagement)
    IN  IF Low(engRating)
            THEN <<Rec(IF engRating = "critical" THEN "warning" ELSE "critical",
                       "engagement", "Low Viewer Engagement")>>
        ELSE <<>>

\* Engagement Analysis
EngagementRecs(s) ==
    LET engRating == rateMetric("engagement", s.engagement)
    IN  IF Low(engRating)
            THEN <<Rec(IF engRating = "critical" THEN "critical" ELSE "warning",
                       "engagement", "Low Viewer Engagement")>>
        ELSE <<>>

\* High play rate + low engagement
StartButDontStayRecs(s) ==
    LET playRating == rateMetric("playRate", s.playRate)
        engRating == rateMetric("engagement", s.engagement)
    IN  IF High(playRating) /\ Low(engRating)
            THEN <<Rec("warning", "engagement", "Viewers Start But Don't Stay")>>
        ELSE <<>>

\* Unmute Rate Analysis
UnmuteRecs(s) ==
    IF Low(rateMetric("unmuteRate", s.unmuteRate))
        THEN <<Rec("warning", "unmuteRate", "Low Unmute Rate")>>
    ELSE <<>>

\* mutant: the conversion rules run without the guard on tracked conversions
ConversionRecs_noGuard(s) ==
    LET convRating == rateMetric("conversionRate", s.conversionRate)
        engRating == rateMetric("engagement", s.engagement)
    IN  (IF Low(convRating)
             THEN <<Rec("warning", "conversionRate", "Low Conversion Rate")>>
         ELSE <<>>)
        \o (IF High(engRating) /\ Low(convRating)
                THEN <<Rec("warning", "conversionRate",
                           "Engaged Viewers Aren't Converting")>>
            ELSE <<>>)
        \o (IF convRating = "excellent"
                THEN <<Rec("positive", "conversionRate",
                           "Excellent Conversion Rate")>>
            ELSE <<>>)

\* Conversion Rate Analysis
ConversionRecs(s) ==
    LET convRating == rateMetric("conversionRate", s.conversionRate)
        engRating == rateMetric("engagement", s.engagement)
    IN  IF s.conversionCount > 0 \/ s.conversionRate > 0
            THEN (IF Low(convRating)
                      THEN <<Rec("warning", "conversionRate", "Low Conversion Rate")>>
                  ELSE <<>>)
                 \o (IF High(engRating) /\ Low(convRating)
                         THEN <<Rec("warning", "conversionRate",
                                    "Engaged Viewers Aren't Converting")>>
                     ELSE <<>>)
                 \o (IF convRating = "excellent"
                         THEN <<Rec("positive", "conversionRate",
                                    "Excellent Conversion Rate")>>
                     ELSE <<>>)
        ELSE <<>>

\* Revenue Analysis
RevenueRecs(s) ==
    IF s.revenue > 0 THEN <<Rec("positive", "revenue", "Revenue Generating")>>
    ELSE <<>>

\* mutant: every drop gets an entry
DropOffRecs_all(ds) == [k \in 1..Len(ds) |-> DropRec(ds[k])]

\* Drop-off Analysis: drops.slice(0, 3)
DropOffRecs(ds) ==
    LET first == SubSeq(ds, 1, Min(Len(ds), 3))
    IN  [k \in 1..Len(first) |-> DropRec(first[k])]

\* mutant: the drop-off entries are pushed first
RuleRecs_dropsFirst(s, ds) ==
    DropOffRecs(ds) \o PlayRateRecs(s) \o EngagementRecs(s)
      \o StartButDontStayRecs(s) \o UnmuteRecs(s) \o ConversionRecs(s)
      \o RevenueRecs(s)

\* recs before the final check for an empty list
RuleRecs(s, ds) ==
    PlayRateRecs(s) \o EngagementRecs(s) \o StartButDontStayRecs(s)
      \o UnmuteRecs(s) \o ConversionRecs(s) \o RevenueRecs(s) \o DropOffRecs(ds)

SolidPerformance == Rec("positive", "overall", "Solid Performance")

\* mutant: the list is returned as the rules left it
generateRecommendations_noFallback(s, ds) == RuleRecs(s, ds)

generateRecommendations(s, ds) ==
    IF Len(RuleRecs(s, ds)) = 0 THEN <<SolidPerformance>> ELSE RuleRecs(s, ds)

metricRating(m, v) == [value |-> v, rating |-> rateMetric(m, v)]

(***************************************************************************)
(* Specification Spec: one call of analyzeVideo                            *)
(***************************************************************************)
\* rates of the analysed VideoStats: one value of every rating, the values
\* of the example scenario, and for the conversion rate both zero and a
\* critical value above zero
AnalysisRates ==
    [playRate       |-> {0, 150, 300, 500, 700, 800},
     engagement     |-> {0, 150, 250, 400, 600, 700},
     conversionRate |-> {0, 2, 5, 15, 30, 50, 60},
     unmuteRate     |-> {0, 100, 400, 700}]

AnalysisStats ==
    {[RateStats(p, e, c, u) EXCEPT !.conversionCount = n, !.revenue = r, !.plays = 1000] :
        p \in AnalysisRates.playRate, e \in AnalysisRates.engagement,
        c \in AnalysisRates.conversionRate, u \in AnalysisRates.unmuteRate,
        n \in {0, 3}, r \in {0, 500}}

\* a curve with three flagged drops of severity poor and a critical one after
\* them
LateCriticalPoints ==
    EvenCurve(1, <<600, 594, 495, 486, 405, 396, 385, 319, 232>>)

\* a curve with a flagged drop of severity poor and a critical one after it
MixedSeverityPoints == EvenCurve(1, <<200, 195, 192, 160, 156, 108>>)

\* no curve; the example scenario (one critical drop); a mild curve (one
\* drop of average severity); a ladder with four flagged intervals; three
\* poor drops before a critical one; a poor drop before a critical one
AnalysisCurves ==
    {<<>>,
     ExamplePoints,
     EvenCurve(10, <<100, 99, 98, 90>>),
     EvenCurve(1, <<100, 95, 90, 80, 40, 20, 10, 4>>),
     LateCriticalPoints,
     MixedSeverityPoints}

Init ==
    /\ pc = "start"
    /\ call = "analyzeVideo"
    /\ stats \in AnalysisStats
    /\ points \in AnalysisCurves
    /\ totalViewers = TotalViewersOf(points)
    /\ metric = "none"
    /\ value = 0
    /\ value2 = 0
    /\ score = NoScore
    /\ score2 = NoScore
    /\ overallScore = NoScore
    /\ overallRating = "none"
    /\ drops = <<>>
    /\ recs = <<>>
    /\ metrics = <<>>
    /\ NoPortfolio
    /\ NoServices
    /\ NoSegment
    /\ NoRequests

AnalyzeVideo ==
    /\ pc = "start"
    /\ call = "analyzeVideo"
    /\ overallScore' = calculateScore(stats)
    /\ drops' = findSignificantDrops(points, totalViewers)
    /\ recs' = generateRecommendations(stats, findSignificantDrops(points, totalViewers))
    /\ overallRating' = ratingFromScore(calculateScore(stats))
    /\ metrics' = [m \in Metrics |-> metricRating(m, stats[m])]
    /\ pc' = "done"
    /\ UNCHANGED <<call, metric, value, value2, score, score2, stats, points,
                   totalViewers>>
    /\ UNCHANGED <<portfolioVars, segmentVars, requestVars, serviceVars>>

Next == AnalyzeVideo

Spec == Init /\ [][Next]_vars

(***************************************************************************)
(* Claims about generateRecommendations (checked under Spec)               *)
(***************************************************************************)
Analyzed == pc = "done" /\ call = "analyzeVideo"

\* no metric, revenue or drop-off rule fires on the analysed input
NoRuleFires ==
    LET playRating == rateMetric("playRate", stats.playRate)
        engRating == rateMetric("engagement", stats.engagement)
        unmuteRating == rateMetric("unmuteRate", stats.unmuteRate)
        convRating == rateMetric("conversionRate", stats.conversionRate)
    IN  /\ playRating \in {"average", "good"}
        /\ ~Low(engRating)
        /\ ~Low(unmuteRating)
        /\ \/ ~(stats.conversionCount > 0 \/ stats.conversionRate > 0)
           \/ convRating \in {"average", "good"}
        /\ ~(stats.revenue > 0)
        /\ drops = <<>>

\* C10: generateRecommendations never returns an empty list; if no metric,
\* revenue or drop-off rule fires the result is exactly the one positive
\* "Solid Performance" entry with metric "overall"; and that entry appears
\* only as the sole element of the list.
C10_NeverEmpty ==
    Analyzed =>
        /\ Len(recs) >= 1
        /\ NoRuleFires => recs = <<SolidPerformance>>
        /\ \A k \in 1..Len(recs) :
              (recs[k].metric = "overall" \/ recs[k].title = "Solid Performance")
                  => (Len(recs) = 1 /\ NoRuleFires /\ recs[k].type = "positive")

\* C10 witness: an analysis in which no rule fired (the conversion rate is
\* zero and rates critical, but the guard skips it) returned the fallback.
C10_Witness ==
    /\ Analyzed
    /\ NoRuleFires
    /\ stats.conversionRate = 0
    /\ recs = <<SolidPerformance>>

ConversionTitles ==
    {"Low Conversion Rate", "Engaged Viewers Aren't Converting",
     "Excellent Conversion Rate"}

\* C11: with conversionCount = 0 and conversionRate = 0 no recommendation
\* has metric conversionRate or one of the three conversion titles, whatever
\* the other metrics and the drops are, although the rate 0 rates critical.
C11_NoConversionRecWithoutTracking ==
    (Analyzed /\ stats.conversionCount = 0 /\ stats.conversionRate = 0) =>
        /\ metrics.conversionRate.rating = "critical"
        /\ \A k \in 1..Len(recs) :
              /\ recs[k].metric # "conversionRate"
              /\ recs[k].title \notin ConversionTitles

\* C11 witness: no conversions tracked, engagement good or better (the
\* interaction rule would fire on the critical rating), other rules fired.
C11_Witness ==
    /\ Analyzed
    /\ stats.conversionCount = 0
    /\ stats.conversionRate = 0
    /\ High(metrics.engagement.rating)
    /\ Len(drops) > 0
    /\ Len(recs) > 1

\* the stats of the example scenario
ExampleStats ==
    /\ stats.playRate = 800
    /\ stats.engagement = 700
    /\ stats.conversionRate = 60
    /\ stats.unmuteRate = 700
    /\ stats.plays = 1000
    /\ stats.revenue = 500

HasRec(type, m) == \E k \in 1..Len(recs) : recs[k].type = type /\ recs[k].metric = m

\* C12 as stated: for the example stats the score is at least 80, the rating
\* excellent, and the recommendations hold a positive entry for play rate, a
\* positive entry for engagement and a revenue entry.
C12_AsStated ==
    (Analyzed /\ ExampleStats) =>
        /\ overallScore >= 80
        /\ overallRating = "excellent"
        /\ HasRec("positive", "playRate")
        /\ HasRec("positive", "engagement")
        /\ HasRec("positive", "revenue")

\* C12 amended: for the example stats the score is at least 80, the rating
\* excellent, and the recommendations hold the positive entries for play
\* rate, conversion rate and revenue; there is no entry for engagement,
\* because only a poor or critical engagement produces one.
C12_ExampleStats ==
    (Analyzed /\ ExampleStats) =>
        /\ overallScore >= 80
        /\ overallRating = "excellent"
        /\ HasRec("positive", "playRate")
        /\ HasRec("positive", "conversionRate")
        /\ HasRec("positive", "revenue")
        /\ \A k \in 1..Len(recs) : recs[k].metric # "engagement"

\* C12 witness: the example stats were analysed.
C12_Witness ==
    /\ Analyzed
    /\ ExampleStats
    /\ overallScore >= 80
    /\ Len(recs) >= 3

(***************************************************************************)
(* analyzePortfolio                                                        *)
(*                                                                         *)
(* A mean is the exact fraction [num, den] of thousandths in lowest terms; *)
(* the n = 0 branch returns the number 0, written Zero.  Dividing by       *)
(* n = 0 gives NaN, written [num |-> 0, den |-> 0]; every comparison with  *)
(* NaN is false.                                                           *)
(***************************************************************************)
Zero == [num |-> 0, den |-> 1]

\* sum / n
Avg(sum, n) ==
    IF n = 0 THEN [num |-> 0, den |-> 0]
    ELSE [num |-> sum \div GCD(sum, n), den |-> n \div GCD(sum, n)]

\* avg < limit, limit in thousandths
AvgBelow(avg, limit) == avg.num < limit * avg.den

\* allStats.reduce((s, v) => s + v[field], 0)
RECURSIVE SumField(_, _)
SumField(statsList, field) ==
    IF Len(statsList) = 0 THEN 0
    ELSE statsList[1][field] + SumField(Tail(statsList), field)

\* videos.find((v) => v.id === stats.videoId)?.title ?? stats.videoId
videoNameOf(vids, id) ==
    LET hits == {k \in 1..Len(vids) : vids[k].id = id}
    IN  IF hits = {} THEN id
        ELSE vids[CHOOSE k \in hits : \A j \in hits : k <= j].title

scoredOf(vids, statsList) ==
    [k \in 1..Len(statsList) |->
        [videoId |-> statsList[k].videoId,
         videoName |-> videoNameOf(vids, statsList[k].videoId),
         score |-> calculateScore(statsList[k])]]

\* scored.sort((a, b) => b.score - a.score): stable, highest score first
RECURSIVE InsertByScoreDesc(_, _)
InsertByScoreDesc(sorted, x) ==
    IF Len(sorted) = 0 THEN <<x>>
    ELSE IF sorted[Len(sorted)].score >= x.score THEN Append(sorted, x)
    ELSE Append(InsertByScoreDesc(SubSeq(sorted, 1, Len(sorted) - 1), x),
                sorted[Len(sorted)])

RECURSIVE SortByScoreDesc(_)
SortByScoreDesc(sc) ==
    IF Len(sc) = 0 THEN <<>>
    ELSE InsertByScoreDesc(SortByScoreDesc(SubSeq(sc, 1, Len(sc) - 1)), sc[Len(sc)])

Reverse(sq) == [k \in 1..Len(sq) |-> sq[Len(sq) + 1 - k]]

\* the length of the two performer lists
PerformerCount == 5

\* scored.slice(0, 5)
topPerformersOf(sorted) == SubSeq(sorted, 1, Min(PerformerCount, Len(sorted)))

\* mutant: the bottom five are left best first
worstPerformersOf_notReversed(sorted) ==
    SubSeq(sorted, Max(1, Len(sorted) - PerformerCount + 1), Len(sorted))

\* scored.slice(-5).reverse()
worstPerformersOf(sorted) ==
    Reverse(SubSeq(sorted, Max(1, Len(sorted) - PerformerCount + 1), Len(sorted)))

\* a portfolio recommendation with the performer its text names, if any
PortfolioRec(type, m, title, name, sc) ==
    [type |-> type, metric |-> m, title |-> title, videoName |-> name, score |-> sc]

\* mutant: the entry about the worst performer is pushed before the revenue
\* summary
portfolioRecsOf_worstBeforeRevenue(avgEngagement, avgPlayRate, totalRevenue, top, worst) ==
    (IF AvgBelow(avgEngagement, 250)
         THEN <<PortfolioRec("critical", "engagement",
                             "Portfolio-Wide Low Engagement", "", NoScore)>>
     ELSE <<>>)
    \o (IF AvgBelow(avgPlayRate, 300)
            THEN <<PortfolioRec("warning", "playRate", "Low Average Play Rate",
                                "", NoScore)>>
        ELSE <<>>)
    \o (IF Len(worst) > 0 /\ worst[1].score < 30
            THEN <<PortfolioRec("warning", "overall",
                                "Underperforming Videos Need Attention",
                                worst[1].videoName, worst[1].score)>>
        ELSE <<>>)
    \o (IF totalRevenue > 0 /\ Len(top) > 0
            THEN <<PortfolioRec("positive", "revenue", "Revenue Summary",
                                top[1].videoName, top[1].score)>>
        ELSE <<>>)

portfolioRecsOf(avgEngagement, avgPlayRate, totalRevenue, top, worst) ==
    (IF AvgBelow(avgEngagement, 250)
         THEN <<PortfolioRec("critical", "engagement",
                             "Portfolio-Wide Low Engagement", "", NoScore)>>
     ELSE <<>>)
    \o (IF AvgBelow(avgPlayRate, 300)
            THEN <<PortfolioRec("warning", "playRate", "Low Average Play Rate",
                                "", NoScore)>>
        ELSE <<>>)
    \o (IF totalRevenue > 0 /\ Len(top) > 0
            THEN <<PortfolioRec("positive", "revenue", "Revenue Summary",
                                top[1].videoName, top[1].score)>>
        ELSE <<>>)
    \o (IF Len(worst) > 0 /\ worst[1].score < 30
            THEN <<PortfolioRec("warning", "overall",
                                "Underperforming Videos Need Attention",
                                worst[1].videoName, worst[1].score)>>
        ELSE <<>>)

EmptySummary ==
    [totalVideos |-> 0, totalPlays |-> 0, totalConversions |-> 0,
     totalRevenue |-> 0, avgEngagement |-> Zero, avgConversionRate |-> Zero,
     avgPlayRate |-> Zero, avgUnmuteRate |-> Zero, topPerformers |-> <<>>,
     worstPerformers |-> <<>>, portfolioRecommendations |-> <<>>]

\* analyzePortfolio past the check of n
SummaryOf(vids, statsList) ==
    LET n == Len(statsList)
        sorted == SortByScoreDesc(scoredOf(vids, statsList))
        top == topPerformersOf(sorted)
        worst == worstPerformersOf(sorted)
        avgEngagement == Avg(SumField(statsList, "engagement"), n)
        avgPlayRate == Avg(SumField(statsList, "playRate"), n)
        totalRevenue == SumField(statsList, "revenue")
    IN  [totalVideos |-> n,
         totalPlays |-> SumField(statsList, "plays"),
         totalConversions |-> SumField(statsList, "conversionCount"),
         totalRevenue |-> totalRevenue,
         avgEngagement |-> avgEngagement,
         avgConversionRate |-> Avg(SumField(statsList, "conversionRate"), n),
         avgPlayRate |-> avgPlayRate,
         avgUnmuteRate |-> Avg(SumField(statsList, "unmuteRate"), n),
         topPerformers |-> top,
         worstPerformers |-> worst,
         portfolioRecommendations |->
             portfolioRecsOf(avgEngagement, avgPlayRate, totalRevenue, top, worst)]

\* mutant: the empty list takes the general path
analyzePortfolio_noEmptyCheck(vids, statsList) == SummaryOf(vids, statsList)

analyzePortfolio(vids, statsList) ==
    IF Len(statsList) = 0 THEN EmptySummary ELSE SummaryOf(vids, statsList)

(***************************************************************************)
(* Specification SpecPortfolio: one call of analyzePortfolio               *)
(***************************************************************************)
VideoIds == <<"v1", "v2", "v3", "v4", "v5", "v6", "v7", "v8", "v9">>
VideoTitles == <<"Video 1", "Video 2", "Video 3", "Video 4", "Video 5",
                 "Video 6", "Video 7", "Video 8", "Video 9">>

Video(k) == [id |-> VideoIds[k], title |-> VideoTitles[k]]

\* the stats a video of the portfolio can have: strong, empty, middling and
\* weak.  The rates are multiples of 1/8, which doubles add without error.
PortfolioKinds ==
    {[RateStats(750, 750, 60, 750) EXCEPT !.plays = 1000, !.conversionCount = 60,
                                          !.revenue = 500],
     NoStats,
     [RateStats(500, 500, 30, 500) EXCEPT !.plays = 100, !.conversionCount = 3],
     [RateStats(250, 250, 15, 250) EXCEPT !.plays = 40, !.conversionCount = 1,
                                          !.revenue = 20]}

\* the lists of n stats, the k-th one of video k
RECURSIVE StatsLists(_)
StatsLists(n) ==
    IF n = 0 THEN {<<>>}
    ELSE {Append(l, [kind EXCEPT !.videoId = VideoIds[n]]) :
              l \in StatsLists(n - 1), kind \in PortfolioKinds}

\* no videos, one video, all videos
VideoLists == {<<>>, <<Video(2)>>, [k \in 1..Len(VideoIds) |-> Video(k)]}

InitPortfolio ==
    /\ pc = "start"
    /\ call = "analyzePortfolio"
    /\ \E n \in 0..MaxVideos : allStats \in StatsLists(n)
    /\ videos \in VideoLists
    /\ summary = <<>>
    /\ stats = NoStats
    /\ points = <<>>
    /\ totalViewers = 0
    /\ metric = "none"
    /\ value = 0
    /\ value2 = 0
    /\ score = NoScore
    /\ score2 = NoScore
    /\ overallScore = NoScore
    /\ overallRating = "none"
    /\ drops = <<>>
    /\ recs = <<>>
    /\ metrics = <<>>
    /\ NoSegment
    /\ NoServices
    /\ NoRequests

AnalyzePortfolio ==
    /\ pc = "start"
    /\ call = "analyzePortfolio"
    /\ summary' = analyzePortfolio(videos, allStats)
    /\ pc' = "done"
    /\ UNCHANGED <<call, metric, value, value2, score, score2, stats, overallScore,
                   overallRating, points, totalViewers, drops, recs, metrics,
                   videos, allStats, segmentVars, requestVars, serviceVars>>

NextPortfolio == AnalyzePortfolio

SpecPortfolio == InitPortfolio /\ [][NextPortfolio]_vars

(***************************************************************************)
(* Claims about analyzePortfolio (checked under SpecPortfolio)             *)
(***************************************************************************)
PortfolioDone == pc = "done" /\ call = "analyzePortfolio"

\* position of a video in the stats list (ids are distinct)
InputIndex(id) == CHOOSE k \in 1..Len(allStats) : allStats[k].videoId = id

ListedIds(list) == {list[k].videoId : k \in 1..Len(list)}

\* every entry of the list is a video of the input with its composite score,
\* and no video is listed twice
ListsInputVideos(list) ==
    /\ \A k \in 1..Len(list) :
          \E i \in 1..Len(allStats) :
              /\ allStats[i].videoId = list[k].videoId
              /\ list[k].score = calculateScore(allStats[i])
    /\ Cardinality(ListedIds(list)) = Len(list)

\* C13: with an empty stats list analyzePortfolio returns totals and
\* averages that are all 0 and empty topPerformers, worstPerformers and
\* portfolioRecommendations, whatever the videos list holds.
C13_EmptyPortfolio ==
    (PortfolioDone /\ Len(allStats) = 0) =>
        /\ summary.totalVideos = 0
        /\ summary.totalPlays = 0
        /\ summary.totalConversions = 0
        /\ summary.totalRevenue = 0
        /\ summary.avgEngagement = Zero
        /\ summary.avgConversionRate = Zero
        /\ summary.avgPlayRate = Zero
        /\ summary.avgUnmuteRate = Zero
        /\ summary.topPerformers = <<>>
        /\ summary.worstPerformers = <<>>
        /\ summary.portfolioRecommendations = <<>>

\* C13 witness: an empty stats list analysed with a non-empty videos list.
C13_Witness ==
    /\ PortfolioDone
    /\ Len(allStats) = 0
    /\ Len(videos) > 0
    /\ summary.totalVideos = 0

\* C14: for n > 0 videos topPerformers holds min(5, n) videos in
\* non-increasing score order and no video outside it scores higher than one
\* inside; worstPerformers holds min(5, n) videos in non-decreasing score
\* order and no video outside it scores lower than one inside.
C14_TopAndWorst ==
    (PortfolioDone /\ Len(allStats) > 0) =>
        LET top == summary.topPerformers
            worst == summary.worstPerformers
            n == Len(allStats)
        IN  /\ Len(top) = Min(5, n)
            /\ Len(worst) = Min(5, n)
            /\ ListsInputVideos(top)
            /\ ListsInputVideos(worst)
            /\ \A k \in 1..(Len(top) - 1) : top[k].score >= top[k + 1].score
            /\ \A k \in 1..(Len(worst) - 1) : worst[k].score <= worst[k + 1].score
            /\ \A i \in 1..n :
                  /\ allStats[i].videoId \notin ListedIds(top) =>
                        \A k \in 1..Len(top) : calculateScore(allStats[i]) <= top[k].score
                  /\ allStats[i].videoId \notin ListedIds(worst) =>
                        \A k \in 1..Len(worst) : calculateScore(allStats[i]) >= worst[k].score

\* C14 witness: more than five videos, the lists differ, and both lists hold
\* videos of different scores.
C14_Witness ==
    /\ PortfolioDone
    /\ Len(allStats) > 5
    /\ ListedIds(summary.topPerformers) # ListedIds(summary.worstPerformers)
    /\ summary.topPerformers[1].score > summary.topPerformers[5].score
    /\ summary.worstPerformers[1].score < summary.worstPerformers[5].score

\* two entries of the list with the same score stand in input order
TiesInInputOrder(list) ==
    \A i \in 1..Len(list) : \A j \in 1..Len(list) :
        (i < j /\ list[i].score = list[j].score)
            => InputIndex(list[i].videoId) < InputIndex(list[j].videoId)

\* C15: in topPerformers and in worstPerformers videos of equal composite
\* score appear in the order of the stats list.
C15_TiesInInputOrder ==
    PortfolioDone =>
        /\ TiesInInputOrder(summary.topPerformers)
        /\ TiesInInputOrder(summary.worstPerformers)

(***************************************************************************)
(* Specification SpecRequests: the exported functions called for several   *)
(* inbound requests, served in any order.  A call runs to completion       *)
(* (the functions are synchronous); what it can leave behind is the state  *)
(* of the objects it was handed and of the module-level THRESHOLDS and     *)
(* WEIGHTS.                                                                *)
(***************************************************************************)
analyzeVideo(video, s, pts, tv) ==
    [videoId |-> video.id,
     videoName |-> video.title,
     overallScore |-> calculateScore(s),
     overallRating |-> ratingFromScore(calculateScore(s)),
     metrics |-> [m \in Metrics |-> metricRating(m, s[m])],
     significantDrops |-> findSignificantDrops(pts, tv),
     recommendations |-> generateRecommendations(s, findSignificantDrops(pts, tv))]

NoVideo == [id |-> "", title |-> ""]

\* a call with its arguments; an argument the function does not take is empty
Request(fn, video, s, pts, vids, statsList) ==
    [fn |-> fn, video |-> video, stats |-> s, points |-> pts,
     totalViewers |-> TotalViewersOf(pts), videos |-> vids, allStats |-> statsList]

ExampleVideoStats ==
    [RateStats(800, 700, 60, 700) EXCEPT !.plays = 1000, !.revenue = 500]

\* a portfolio given worst video first, with two videos of equal score
UnsortedStats ==
    << [NoStats EXCEPT !.videoId = "v1"],
       [RateStats(500, 500, 30, 500) EXCEPT !.videoId = "v2", !.plays = 100],
       [RateStats(750, 750, 60, 750) EXCEPT !.videoId = "v3", !.revenue = 500],
       [RateStats(500, 500, 30, 500) EXCEPT !.videoId = "v4", !.plays = 100] >>

LadderPoints == EvenCurve(1, <<100, 95, 90, 80, 40, 20, 10, 4>>)

RequestSet ==
    {Request("calculateScore", NoVideo, ExampleVideoStats, <<>>, <<>>, <<>>),
     Request("findSignificantDrops", NoVideo, NoStats, ExamplePoints, <<>>, <<>>),
     Request("findSignificantDrops", NoVideo, NoStats, LadderPoints, <<>>, <<>>),
     Request("analyzeVideo", Video(1), ExampleVideoStats, ExamplePoints, <<>>, <<>>),
     Request("analyzeVideo", Video(2), NoStats, LadderPoints, <<>>, <<>>),
     Request("analyzePortfolio", NoVideo, NoStats, <<>>, <<Video(3)>>, UnsortedStats)}

Pending == [served |-> FALSE, order |-> 0, result |-> <<>>]

ServedCount == Cardinality({i \in DOMAIN responses : responses[i].served})

\* the points array after a call: allDrops, significant, the segment lists
\* and selected are new arrays, and only those are sorted
pointsAfterCall(pts) == pts

\* mutant: the ranking sorts the stats array itself
allStatsAfterCall_sortedInPlace(statsList) ==
    LET sorted == SortByScoreDesc(scoredOf(<<>>, statsList))
    IN  [k \in 1..Len(statsList) |->
            statsList[CHOOSE i \in 1..Len(statsList) :
                          statsList[i].videoId = sorted[k].videoId]]

\* the stats array after a call: it is read by reduce and map, and the array
\* that is sorted is the one map returned
allStatsAfterCall(statsList) == statsList

ArgumentsAfter(req) ==
    [req EXCEPT !.points = pointsAfterCall(@), !.allStats = allStatsAfterCall(@)]

\* mutant: the analysis carries the number of calls made before it
ResultOf_counted(req) ==
    IF req.fn = "calculateScore" THEN calculateScore(req.stats)
    ELSE IF req.fn = "findSignificantDrops"
        THEN findSignificantDrops(req.points, req.totalViewers)
    ELSE IF req.fn = "analyzeVideo"
        THEN [analyzeVideo(req.video, req.stats, req.points, req.totalViewers)
                EXCEPT !.overallScore = @ + ServedCount]
    ELSE analyzePortfolio(req.videos, req.allStats)

\* the value the call returns
ResultOf(req) ==
    IF req.fn = "calculateScore" THEN calculateScore(req.stats)
    ELSE IF req.fn = "findSignificantDrops"
        THEN findSignificantDrops(req.points, req.totalViewers)
    ELSE IF req.fn = "analyzeVideo"
        THEN analyzeVideo(req.video, req.stats, req.points, req.totalViewers)
    ELSE analyzePortfolio(req.videos, req.allStats)

InitRequests ==
    /\ pc = "start"
    /\ call = "requests"
    /\ requests \in [1..NumRequests -> RequestSet]
    /\ responses = [i \in 1..NumRequests |-> Pending]
    /\ shared = ModuleState
    /\ stats = NoStats
    /\ points = <<>>
    /\ totalViewers = 0
    /\ metric = "none"
    /\ value = 0
    /\ value2 = 0
    /\ score = NoScore
    /\ score2 = NoScore
    /\ overallScore = NoScore
    /\ overallRating = "none"
    /\ drops = <<>>
    /\ recs = <<>>
    /\ metrics = <<>>
    /\ NoPortfolio
    /\ NoServices
    /\ NoSegment

\* request i calls fn and gets its result
Serve(i, fn) ==
    /\ call = "requests"
    /\ ~responses[i].served
    /\ requests[i].fn = fn
    /\ responses' = [responses EXCEPT
                        ![i] = [served |-> TRUE, order |-> ServedCount,
                                result |-> ResultOf(requests[i])]]
    /\ requests' = [requests EXCEPT ![i] = ArgumentsAfter(@)]
    /\ shared' = shared
    /\ pc' = IF ServedCount + 1 = NumRequests THEN "done" ELSE "start"
    /\ UNCHANGED <<call, metric, value, value2, score, score2, stats, overallScore,
                   overallRating, points, totalViewers, drops, recs, metrics,
                   portfolioVars, segmentVars, serviceVars>>

ServeCalculateScore == \E i \in 1..NumRequests : Serve(i, "calculateScore")
ServeFindSignificantDrops == \E i \in 1..NumRequests : Serve(i, "findSignificantDrops")
ServeAnalyzeVideo == \E i \in 1..NumRequests : Serve(i, "analyzeVideo")
ServeAnalyzePortfolio == \E i \in 1..NumRequests : Serve(i, "analyzePortfolio")

NextRequests ==
    \/ ServeCalculateScore
    \/ ServeFindSignificantDrops
    \/ ServeAnalyzeVideo
    \/ ServeAnalyzePortfolio

SpecRequests == InitRequests /\ [][NextRequests]_vars

(***************************************************************************)
(* Claims about repeated and interleaved calls (checked under SpecRequests)*)
(***************************************************************************)
SameArguments(i, j) ==
    /\ requests[i].fn = requests[j].fn
    /\ requests[i].video = requests[j].video
    /\ requests[i].stats = requests[j].stats
    /\ requests[i].points = requests[j].points
    /\ requests[i].totalViewers = requests[j].totalViewers

Loss(i) == points[i - 1].viewers - points[i].viewers
Before(i) == points[i - 1].viewers

PositiveIntervals == {i \in 2..Len(points) : Loss(i) > 0}

\* a common multiple of the viewer counts before the positive intervals
BeforeLCM == LCMSet({Before(i) : i \in PositiveIntervals})

\* the relative drop 100 * Loss(i) / Before(i), in units of 100 / den
RelUnits(i, den) == Loss(i) * (den \div Before(i))

RECURSIVE SumRelUnits(_, _)
SumRelUnits(S, den) ==
    IF S = {} THEN 0
    ELSE LET i == CHOOSE j \in S : TRUE
         IN  RelUnits(i, den) + SumRelUnits(S \ {i}, den)

\* the intervals whose relative drop is more than 1.5 times the mean relative
\* drop of the positive intervals
ExceedingMean ==
    LET den == BeforeLCM
        total == SumRelUnits(PositiveIntervals, den)
        n == Cardinality(PositiveIntervals)
    IN  {i \in PositiveIntervals : 2 * n * RelUnits(i, den) > 3 * total}

\* entry k of the result is the interval that ends at point i
EntryIs(k, i) ==
    /\ drops[k].second = points[i].second
    /\ drops[k].viewersBefore = points[i - 1].viewers
    /\ drops[k].viewersAfter = points[i].viewers

\* C18: every returned entry is a pair of consecutive points with a positive
\* loss whose relative drop exceeds 1.5 times the mean over the positive
\* intervals; and on a curve of 3 or more points with a positive last second
\* every such interval is returned unless its segment already holds 3
\* returned entries.
C18_SelectedAgainstMean ==
    Returned =>
        LET exceeding == ExceedingMean
        IN  /\ \A k \in 1..Len(drops) : \E i \in exceeding : EntryIs(k, i)
            /\ PastGuards =>
                  \A i \in exceeding :
                      \/ \E k \in 1..Len(drops) : EntryIs(k, i)
                      \/ Cardinality({k \in 1..Len(drops) :
                             drops[k].segment =
                                 getSegment(points[i].second,
                                            points[Len(points)].second)}) = 3

\* C18 witness: a curve with an interval without loss, a positive interval
\* that is not above the threshold, and a returned one.
C18_Witness ==
    /\ Returned
    /\ Len(drops) >= 1
    /\ \E i \in 2..Len(points) : Loss(i) <= 0
    /\ PositiveIntervals \ ExceedingMean # {}

(***************************************************************************)
(* Specification SpecSegment: getSegment on two seconds of one timeline,   *)
(* seconds just outside the timeline included                              *)
(***************************************************************************)
\* what a call of getSegment returns, and whether the loop returned it
SegmentOf(second, lastSecond) ==
    [name |-> getSegment(second, lastSecond),
     inLoop |-> SegmentHits(second, lastSecond) # {}]

InitSegment ==
    /\ pc = "start"
    /\ call = "getSegment"
    /\ lastSec \in 1..MaxLastSecond
    /\ value \in (0 - 1)..(lastSec + 1)
    /\ value2 \in (0 - 1)..(lastSec + 1)
    /\ segment = <<>>
    /\ segment2 = <<>>
    /\ stats = NoStats
    /\ points = <<>>
    /\ totalViewers = 0
    /\ metric = "none"
    /\ score = NoScore
    /\ score2 = NoScore
    /\ overallScore = NoScore
    /\ overallRating = "none"
    /\ drops = <<>>
    /\ recs = <<>>
    /\ metrics = <<>>
    /\ NoPortfolio
    /\ NoServices
    /\ NoRequests

GetSegment ==
    /\ pc = "start"
    /\ call = "getSegment"
    /\ segment' = SegmentOf(value, lastSec)
    /\ segment2' = SegmentOf(value2, lastSec)
    /\ pc' = "done"
    /\ UNCHANGED <<call, metric, value, value2, score, score2, stats, overallScore,
                   overallRating, points, totalViewers, drops, recs, metrics,
                   lastSec, portfolioVars, requestVars, serviceVars>>

NextSegment == GetSegment

SpecSegment == InitSegment /\ [][NextSegment]_vars

(***************************************************************************)
(* Claims about getSegment (checked under SpecSegment)                     *)
(***************************************************************************)
SegmentDone == pc = "done" /\ call = "getSegment"

\* the quartile of second s on a timeline that ends at L
Quartile(s, L) ==
    IF 4 * s < L THEN "early"
    ELSE IF 4 * s < 2 * L THEN "mid-early"
    ELSE IF 4 * s < 3 * L THEN "mid-late"
    ELSE "late"

SegmentRank(name) == CHOOSE k \in 1..4 : SegmentNames[k] = name

\* C19: for lastSecond L > 0 every second s with 0 <= s <= L gets exactly the
\* segment of the direct quartile lookup (early iff 4s < L, mid-early iff
\* L <= 4s < 2L, mid-late iff 2L <= 4s < 3L, late iff 4s >= 3L); the loop
\* itself returns it, the "late" fallback is not reached; and the segment is
\* non-decreasing in s.
C19_SegmentPartition ==
    (SegmentDone /\ 0 <= value /\ value <= lastSec) =>
        /\ segment.inLoop
        /\ segment.name = Quartile(value, lastSec)
        /\ Cardinality(SegmentHits(value, lastSec)) = 1
        /\ (value <= value2 /\ value2 <= lastSec) =>
              SegmentRank(segment.name) <= SegmentRank(segment2.name)

\* C19 witness: a timeline whose quartile bounds are not whole seconds, an
\* earlier second in mid-early and the last second itself, in late.
C19_Witness ==
    /\ SegmentDone
    /\ lastSec % 4 # 0
    /\ 0 <= value
    /\ value < value2
    /\ value2 = lastSec
    /\ segment.name = "mid-early"
    /\ segment2.name = "late"
    /\ segment2.inLoop

(***************************************************************************)
(* Claims about severity and rounding (checked under SpecDrops)            *)
(***************************************************************************)
\* the band of the unrounded relative drop of interval i
UnroundedBand(i) ==
    IF 100 * Loss(i) >= 20 * Before(i) THEN "critical"
    ELSE IF 100 * Loss(i) >= 12 * Before(i) THEN "poor"
    ELSE IF 100 * Loss(i) >= 7 * Before(i) THEN "average"
    ELSE "good"

\* the band of a reported value, given in tenths of a percent
ReportedBand(tenths) ==
    IF tenths >= 200 THEN "critical"
    ELSE IF tenths >= 120 THEN "poor"
    ELSE IF tenths >= 70 THEN "average"
    ELSE "good"

\* entry k reports interval i: both percentages rounded to one decimal
ReportsRounded(k, i) ==
    /\ drops[k].relativeDrop = MathRound(1000 * Loss(i), Before(i))
    /\ drops[k].dropPercentage =
          IF totalViewers > 0 THEN MathRound(1000 * Loss(i), totalViewers) ELSE 0

\* C20 as stated: the severity of a returned drop is the band of its
\* unrounded relative drop (critical >= 20, poor >= 12, average >= 7, else
\* good), the reported percentages are rounded to one decimal, and the
\* severity agrees with the band of the reported relativeDrop.
C20_AsStated ==
    Returned =>
        \A k \in 1..Len(drops) :
            \E i \in PositiveIntervals :
                /\ EntryIs(k, i)
                /\ drops[k].severity = UnroundedBand(i)
                /\ ReportsRounded(k, i)
                /\ drops[k].severity = ReportedBand(drops[k].relativeDrop)

\* the reported value was rounded up onto a band edge from below it, and the
\* severity is the band below the edge
RoundedOntoEdge(k, i) ==
    \/ /\ drops[k].relativeDrop = 200
       /\ 100 * Loss(i) < 20 * Before(i)
       /\ drops[k].severity = "poor"
    \/ /\ drops[k].relativeDrop = 120
       /\ 100 * Loss(i) < 12 * Before(i)
       /\ drops[k].severity = "average"
    \/ /\ drops[k].relativeDrop = 70
       /\ 100 * Loss(i) < 7 * Before(i)
       /\ drops[k].severity = "good"

\* C20 amended: the severity of a returned drop is the band of its unrounded
\* relative drop; the reported relativeDrop is that value rounded to one
\* decimal and dropPercentage is the loss as a percentage of totalViewers
\* rounded to one decimal; the severity agrees with the band of the reported
\* relativeDrop except where rounding lifted the value onto the edge 20.0,
\* 12.0 or 7.0, where the severity is the band below the edge.
C20_SeverityBands ==
    Returned =>
        \A k \in 1..Len(drops) :
            \E i \in PositiveIntervals :
                /\ EntryIs(k, i)
                /\ drops[k].severity = UnroundedBand(i)
                /\ ReportsRounded(k, i)
                /\ \/ drops[k].severity = ReportedBand(drops[k].relativeDrop)
                   \/ RoundedOntoEdge(k, i)

\* C20 witness: a returned drop reported as 12.0 % with severity average.
C20_Witness ==
    /\ Returned
    /\ \E k \in 1..Len(drops) :
          /\ drops[k].relativeDrop = 120
          /\ drops[k].severity = "average"
          /\ drops[k].viewersBefore = 92
          /\ drops[k].viewersAfter = 81

(***************************************************************************)
(* Further claims about generateRecommendations (checked under Spec)       *)
(***************************************************************************)
\* the place of a recommendation's rule in the order of evaluation
RuleRank(title) ==
    IF title \in {"Low Play Rate", "Strong Play Rate"} THEN 1
    ELSE IF title = "Low Viewer Engagement" THEN 2
    ELSE IF title = "Viewers Start But Don't Stay" THEN 3
    ELSE IF title = "Low Unmute Rate" THEN 4
    ELSE IF title = "Low Conversion Rate" THEN 5
    ELSE IF title = "Engaged Viewers Aren't Converting" THEN 6
    ELSE IF title = "Excellent Conversion Rate" THEN 7
    ELSE IF title = "Revenue Generating" THEN 8
    ELSE IF title = "Major Drop-off at" THEN 9
    ELSE 10

\* the second a formatted time m:ss stands for
TimeOf(t) == 60 * t.m + t.s

IsDropOff(r) == r.metric = "dropOff"

\* C21: the list follows the fixed rule order (play rate, low engagement,
\* starts-but-doesn't-stay, unmute, low conversion, engaged-not-converting,
\* excellent conversion, revenue, drop-offs) with the drop-off entries last
\* and in chronological order; in particular a critical drop-off entry comes
\* after a positive revenue entry, so the list is not sorted by severity.
C21_FixedRuleOrder ==
    Analyzed =>
        \A j \in 1..Len(recs) : \A k \in 1..Len(recs) :
            j < k =>
                /\ RuleRank(recs[j].title) <= RuleRank(recs[k].title)
                /\ RuleRank(recs[j].title) = RuleRank(recs[k].title) =>
                      /\ IsDropOff(recs[j])
                      /\ IsDropOff(recs[k])
                      /\ TimeOf(recs[j].formattedTime) < TimeOf(recs[k].formattedTime)
                /\ (recs[k].metric = "revenue" /\ recs[k].type = "positive") =>
                      ~(IsDropOff(recs[j]) /\ recs[j].type = "critical")

\* C21 witness: a positive revenue entry stands before a warning drop-off
\* entry, which stands before a critical drop-off entry.
C21_Witness ==
    /\ Analyzed
    /\ \E i \in 1..Len(recs) : \E j \in 1..Len(recs) : \E k \in 1..Len(recs) :
          /\ i < j /\ j < k
          /\ recs[i].metric = "revenue" /\ recs[i].type = "positive"
          /\ IsDropOff(recs[j]) /\ recs[j].type = "warning"
          /\ IsDropOff(recs[k]) /\ recs[k].type = "critical"

LowEngagementEntries ==
    {k \in 1..Len(recs) : recs[k].title = "Low Viewer Engagement"}

\* C22 as stated: with engagement rated critical or poor there is exactly
\* one "Low Viewer Engagement" entry, of type warning for the rating
\* critical and of type critical for the rating poor; with a better rating
\* there is none.
C22_AsStated ==
    Analyzed =>
        IF Low(metrics.engagement.rating)
            THEN /\ Cardinality(LowEngagementEntries) = 1
                 /\ \A k \in LowEngagementEntries :
                       recs[k].type = IF metrics.engagement.rating = "critical"
                                          THEN "warning" ELSE "critical"
        ELSE LowEngagementEntries = {}

\* C22 amended: with engagement rated critical or poor there is exactly one
\* "Low Viewer Engagement" entry, with metric engagement and of type
\* critical for the rating critical and of type warning for the rating
\* poor; with a better rating there is none.
C22_LowEngagementEntry ==
    Analyzed =>
        IF Low(metrics.engagement.rating)
            THEN /\ Cardinality(LowEngagementEntries) = 1
                 /\ \A k \in LowEngagementEntries :
                       /\ recs[k].metric = "engagement"
                       /\ recs[k].type = IF metrics.engagement.rating = "critical"
                                             THEN "critical" ELSE "warning"
        ELSE LowEngagementEntries = {}

\* C22 witness: engagement rated poor, and the entry is a warning.
C22_Witness ==
    /\ Analyzed
    /\ metrics.engagement.rating = "poor"
    /\ \E k \in LowEngagementEntries : recs[k].type = "warning"

\* the drop-off entries of the list, in list order
DropOffEntries == SelectSeq(recs, IsDropOff)

\* C23: there is one drop-off entry for each of the first min(3, number of
\* drops) drops, in their order, and none for a later drop; entry k is of
\* type critical iff drop k is of severity critical, else warning, and
\* carries the formattedTime, viewersBefore and viewersAfter of drop k.
C23_FirstThreeDrops ==
    Analyzed =>
        /\ Len(DropOffEntries) = Min(3, Len(drops))
        /\ \A k \in 1..Len(DropOffEntries) :
              /\ DropOffEntries[k].type =
                    IF drops[k].severity = "critical" THEN "critical" ELSE "warning"
              /\ DropOffEntries[k].formattedTime = drops[k].formattedTime
              /\ DropOffEntries[k].viewersBefore = drops[k].viewersBefore
              /\ DropOffEntries[k].viewersAfter = drops[k].viewersAfter

\* C23 witness: four drops, the first three not critical and the fourth
\* critical, and three drop-off entries, all warnings.
C23_Witness ==
    /\ Analyzed
    /\ Len(drops) = 4
    /\ drops[4].severity = "critical"
    /\ Len(DropOffEntries) = 3
    /\ \A k \in 1..3 : DropOffEntries[k].type = "warning"

HasTitle(title) == \E k \in 1..Len(recs) : recs[k].title = title

\* C27: the list holds between 1 and 9 entries: the two play-rate entries
\* exclude each other, so do the two interaction entries, and so do
\* "Excellent Conversion Rate" and "Low Conversion Rate"; at most 3 entries
\* are drop-off entries.
C27_BetweenOneAndNine ==
    Analyzed =>
        /\ Len(recs) >= 1
        /\ Len(recs) <= 9
        /\ ~(HasTitle("Low Play Rate") /\ HasTitle("Strong Play Rate"))
        /\ ~(HasTitle("Viewers Start But Don't Stay")
               /\ HasTitle("Engaged Viewers Aren't Converting"))
        /\ ~(HasTitle("Excellent Conversion Rate") /\ HasTitle("Low Conversion Rate"))
        /\ Len(DropOffEntries) <= 3

\* C27 witness: an analysis that returned 9 entries from more than 3 drops.
C27_Witness ==
    /\ Analyzed
    /\ Len(recs) = 9
    /\ Len(drops) > 3

\* the entry of the given type and metric, naming the performer or nobody
PortfolioEntry(cond, type, m, performer) ==
    IF cond
        THEN <<[type |-> type, metric |-> m,
                videoName |-> performer.videoName, score |-> performer.score]>>
    ELSE <<>>

Nobody == [videoName |-> "", score |-> NoScore]

\* type, metric and named performer of every portfolio recommendation
PortfolioEntries ==
    [k \in 1..Len(summary.portfolioRecommendations) |->
        LET r == summary.portfolioRecommendations[k]
        IN  [type |-> r.type, metric |-> r.metric,
             videoName |-> r.videoName, score |-> r.score]]

\* C24: for a non-empty portfolio portfolioRecommendations holds exactly, in
\* this order: a critical engagement entry iff the mean engagement is below
\* 0.25, a warning play-rate entry iff the mean play rate is below 0.30, a
\* positive revenue entry naming topPerformers[0] iff the total revenue is
\* positive, and a warning entry naming worstPerformers[0] iff its score is
\* below 30; it is empty when none of the conditions holds.
C24_PortfolioRules ==
    (PortfolioDone /\ Len(allStats) > 0) =>
        LET n == Len(allStats)
            top == summary.topPerformers[1]
            worst == summary.worstPerformers[1]
        IN  PortfolioEntries =
                PortfolioEntry(SumField(allStats, "engagement") < 250 * n,
                               "critical", "engagement", Nobody)
                \o PortfolioEntry(SumField(allStats, "playRate") < 300 * n,
                                  "warning", "playRate", Nobody)
                \o PortfolioEntry(SumField(allStats, "revenue") > 0,
                                  "positive", "revenue", top)
                \o PortfolioEntry(worst.score < 30, "warning", "overall", worst)

\* C24 witness: a portfolio of several videos that gets all four entries, the
\* top and the worst performer being different videos.
C24_Witness ==
    /\ PortfolioDone
    /\ Len(allStats) > 1
    /\ Len(summary.portfolioRecommendations) = 4
    /\ summary.topPerformers[1].videoId # summary.worstPerformers[1].videoId

\* a non-empty portfolio without any recommendation
C24_NoFallback ==
    /\ PortfolioDone
    /\ Len(allStats) > 0
    /\ summary.portfolioRecommendations = <<>>

(***************************************************************************)
(* Banding of metrics and of the overall score (checked under SpecScore)   *)
(***************************************************************************)
Ratings == <<"critical", "poor", "average", "good", "excellent">>

\* the band of a score given in 1/den: below 20, [20,40), [40,60), [60,80),
\* 80 and above
BandOf(sc, den) ==
    Ratings[1 + Min(4, Max(0, sc) \div (20 * den))]

\* the score at which the band of the rating ends (100 for excellent)
UpperEdge(r) ==
    20 * (CHOOSE k \in 1..Len(Ratings) : Ratings[k] = r)

\* all four metrics of the stats have the rating r
AllRated(s, r) == \A m \in Metrics : rateMetric(m, s[m]) = r

\* for every tracked metric and value the rating is the band of the sub-score
MetricBanding ==
    (pc = "done" /\ call = "normalizeToScore") =>
        /\ rateMetric(metric, value) = BandOf(score, ScoreDen)
        /\ rateMetric(metric, value2) = BandOf(score2, ScoreDen)

\* C25 as stated: the rating of a metric is the band of its sub-score, and
\* whenever all four metrics of a VideoStats have the same rating R the
\* overall rating is R too.
C25_AsStated ==
    /\ MetricBanding
    /\ (pc = "done" /\ call = "calculateScore") =>
           \A r \in {Ratings[k] : k \in 1..Len(Ratings)} :
               AllRated(stats, r) => overallRating = r

\* C25: the rating of a metric is the band of its sub-score, and whenever
\* all four metrics of a VideoStats have the same rating R the overall
\* rating is R, or it is the next better rating because Math.round lifted
\* the weighted sum onto the upper boundary of R's band (20, 40, 60 or 80).
C25_BandingConsistent ==
    /\ MetricBanding
    /\ (pc = "done" /\ call = "calculateScore") =>
           \A r \in {Ratings[k] : k \in 1..Len(Ratings)} :
               AllRated(stats, r) =>
                   \/ overallRating = r
                   \/ /\ r # "excellent"
                      /\ overallScore = UpperEdge(r)
                      /\ overallRating = BandOf(UpperEdge(r), 1)

\* C25 witness: all four metrics rate average and the overall score was
\* rounded up to 60, which rates good.
C25_Witness ==
    /\ pc = "done"
    /\ call = "calculateScore"
    /\ AllRated(stats, "average")
    /\ overallScore = 60
    /\ overallRating = "good"

(***************************************************************************)
(* Curves with a single falling interval (checked under SpecDrops)         *)
(***************************************************************************)
\* the result holds an entry for the interval that ends at point i
IntervalReturned(i) ==
    \E k \in 1..Len(drops) :
        /\ drops[k].second = points[i].second
        /\ drops[k].viewersBefore = Before(i)
        /\ drops[k].viewersAfter = points[i].viewers

\* C26: when exactly one pair of consecutive points has a positive viewer
\* loss the result is empty, however large the loss; in general, when some
\* interval has a positive loss, at least one such interval is not returned.
C26_OneIntervalNeverFlagged ==
    Returned =>
        /\ Cardinality(PositiveIntervals) = 1 => drops = <<>>
        /\ PositiveIntervals # {} =>
              /\ Len(drops) < Cardinality(PositiveIntervals)
              /\ \E i \in PositiveIntervals : ~IntervalReturned(i)

\* C26 witness: a call past both guards on a curve whose only falling
\* interval loses every viewer, with flat or rising intervals around it,
\* has returned nothing.
C26_Witness ==
    /\ Returned
    /\ PastGuards
    /\ Len(points) > 3
    /\ Cardinality(PositiveIntervals) = 1
    /\ \E i \in PositiveIntervals : points[i].viewers = 0
    /\ \E i \in 2..Len(points) : Loss(i) < 0
    /\ drops = <<>>

\* a call that returned several entries and left a falling interval out
C26_SomeLeftOut ==
    /\ Returned
    /\ Len(drops) >= 2
    /\ \E i \in PositiveIntervals : ~IntervalReturned(i)

(***************************************************************************)
(* The file cache (cache.ts) and VidalyticsClient.request (vidalytics.ts)  *)
(*                                                                         *)
(* Times are in seconds.  A cache file is a CacheEntry; the key stands for *)
(* the md5 of endpoint and parameters.  An HTTP response is its status and *)
(* the content of its body; a fetch can also reject.                       *)
(***************************************************************************)
DEFAULT_TTL == 14400
VideoListTtl == 86400
RetryWait == 5

NoFile == [exists |-> FALSE, data |-> "", timestamp |-> 0, expiresAt |-> 0]

CacheEntry(data, t, ttl) ==
    [exists |-> TRUE, data |-> data, timestamp |-> t, expiresAt |-> t + ttl]

Null == "null"

\* readCache(key) at time t: the data returned, and the directory afterwards
\* (an expired file is unlinked)
readCache(files, key, t) ==
    IF ~files[key].exists THEN [data |-> Null, files |-> files]
    ELSE IF t > files[key].expiresAt
        THEN [data |-> Null, files |-> [files EXCEPT ![key] = NoFile]]
    ELSE [data |-> files[key].data, files |-> files]

\* writeCache(key, data, ttl) at time t; a failed write is swallowed
writeCache(files, key, data, ttl, t, written) ==
    IF written THEN [files EXCEPT ![key] = CacheEntry(data, t, ttl)] ELSE files

\* res.ok
Ok(status) == status >= 200 /\ status <= 299

Response(status, content) == [rejected |-> FALSE, status |-> status, content |-> content]
Rejected == [rejected |-> TRUE, status |-> 0, content |-> ""]
NoResponse == [rejected |-> FALSE, status |-> 0, content |-> ""]

Responses ==
    {Response(200, "a"), Response(200, "b"), Response(429, "slow down"),
     Response(500, "oops"), Rejected}

\* what request does with the first response: retry | throw | store
FirstOutcome(r) ==
    IF r.rejected THEN "throw"
    ELSE IF r.status = 429 THEN "retry"
    ELSE IF ~Ok(r.status) THEN "throw"
    ELSE "store"

\* mutant: a rate-limited retry is retried again
RetryOutcome_again(r) ==
    IF r.rejected THEN "throw"
    ELSE IF r.status = 429 THEN "retry"
    ELSE IF ~Ok(r.status) THEN "throw"
    ELSE "store"

\* what request does with the response to the retry: throw | store
RetryOutcome(r) ==
    IF r.rejected THEN "throw"
    ELSE IF ~Ok(r.status) THEN "throw"
    ELSE "store"

(***************************************************************************)
(* Specification SpecClient: concurrent calls of request against one cache *)
(***************************************************************************)
ClientKeys == {"stats", "videos"}

\* two calls of request that can overlap at their awaits
Callers == {"c1", "c2"}

\* getVideoStats (default options), getUsage-like (skipCache) and listVideos
\* (24 h TTL)
CallKinds ==
    {[key |-> "stats", skipCache |-> FALSE, cacheTtl |-> DEFAULT_TTL],
     [key |-> "stats", skipCache |-> TRUE, cacheTtl |-> DEFAULT_TTL],
     [key |-> "videos", skipCache |-> FALSE, cacheTtl |-> VideoListTtl]}

\* a key's file as an earlier run of the server may have left it: none, one
\* written just now, one that has expired
InitialFiles ==
    {NoFile, CacheEntry("old", 0, DEFAULT_TTL),
     CacheEntry("old", 0 - DEFAULT_TTL - RetryWait, DEFAULT_TTL)}

NewCall(kind) ==
    [key |-> kind.key, skipCache |-> kind.skipCache, cacheTtl |-> kind.cacheTtl,
     pc |-> "start", fetches |-> 0, res1 |-> NoResponse, res2 |-> NoResponse,
     limitedAt |-> 0, retriedAt |-> 0, result |-> Null,
     removed |-> FALSE, wrote |-> FALSE, stored |-> NoFile]


InitClient ==
    /\ pc = "start"
    /\ call = "request"
    /\ cache \in [ClientKeys -> InitialFiles]
    /\ now = 0
    /\ calls \in [Callers -> {NewCall(kind) : kind \in CallKinds}]
    /\ metric = "none"
    /\ value = 0
    /\ value2 = 0
    /\ stats = NoStats
    /\ score = NoScore
    /\ score2 = NoScore
    /\ overallScore = NoScore
    /\ overallRating = "none"
    /\ points = <<>>
    /\ totalViewers = 0
    /\ drops = <<>>
    /\ recs = <<>>
    /\ metrics = <<>>
    /\ NoPortfolio
    /\ NoSegment
    /\ NoRequests
    /\ NoBatches
    /\ NoCro

ClientUnchanged ==
    UNCHANGED <<pc, call, metric, value, value2, score, score2, stats, overallScore,
                overallRating, points, totalViewers, drops, recs, metrics,
                portfolioVars, segmentVars, requestVars, batchVars, croVars>>

\* lines 29-48: the cache lookup and, on a miss, the first fetch
BeginRequest(c) ==
    /\ call = "request"
    /\ calls[c].pc = "start"
    /\ LET read == IF calls[c].skipCache THEN [data |-> Null, files |-> cache]
                   ELSE readCache(cache, calls[c].key, now)
       IN  /\ cache' = read.files
           /\ calls' = [calls EXCEPT
                  ![c].removed = read.files # cache,
                  ![c].pc = IF read.data # Null THEN "returned" ELSE "fetch1",
                  ![c].result = read.data,
                  ![c].fetches = IF read.data # Null THEN 0 ELSE 1]
    /\ now' = now
    /\ ClientUnchanged

\* the call stores the content of the ok response r and returns it
Store(c, r, written) ==
    /\ cache' = writeCache(cache, calls[c].key, r.content, calls[c].cacheTtl,
                           now, written)
    /\ calls' = [calls EXCEPT
           ![c].pc = "returned",
           ![c].result = r.content,
           ![c].wrote = cache' # cache,
           ![c].stored = cache'[calls[c].key],
           ![c].res1 = IF calls[c].pc = "fetch1" THEN r ELSE @,
           ![c].res2 = IF calls[c].pc = "fetch2" THEN r ELSE @]

Throw(c, r) ==
    /\ cache' = cache
    /\ calls' = [calls EXCEPT
           ![c].pc = "thrown",
           ![c].res1 = IF calls[c].pc = "fetch1" THEN r ELSE @,
           ![c].res2 = IF calls[c].pc = "fetch2" THEN r ELSE @]

\* lines 49-72: the first fetch settles
FirstResponse(c) ==
    /\ call = "request"
    /\ calls[c].pc = "fetch1"
    /\ \E r \in Responses, written \in BOOLEAN :
          CASE FirstOutcome(r) = "retry" ->
                  /\ written
                  /\ cache' = cache
                  /\ calls' = [calls EXCEPT ![c].pc = "wait", ![c].res1 = r,
                                            ![c].limitedAt = now]
            [] FirstOutcome(r) = "throw" -> written /\ Throw(c, r)
            [] OTHER -> Store(c, r, written)
    /\ now' = now
    /\ ClientUnchanged

\* lines 51-57: the 5 s timer fires and the retry is fetched
Retry(c) ==
    /\ call = "request"
    /\ calls[c].pc = "wait"
    /\ now >= calls[c].limitedAt + RetryWait
    /\ calls' = [calls EXCEPT ![c].pc = "fetch2", ![c].fetches = @ + 1,
                              ![c].retriedAt = now]
    /\ UNCHANGED <<cache, now>>
    /\ ClientUnchanged

\* lines 58-63: the retry settles
RetryResponse(c) ==
    /\ call = "request"
    /\ calls[c].pc = "fetch2"
    /\ \E r \in Responses, written \in BOOLEAN :
          CASE RetryOutcome(r) = "retry" ->
                  /\ written
                  /\ cache' = cache
                  /\ calls' = [calls EXCEPT ![c].pc = "wait", ![c].res2 = r,
                                            ![c].limitedAt = now]
            [] RetryOutcome(r) = "throw" -> written /\ Throw(c, r)
            [] OTHER -> Store(c, r, written)
    /\ now' = now
    /\ ClientUnchanged

\* some call waits for its retry timer
TimerPending ==
    \E c \in Callers : calls[c].pc = "wait" /\ now < calls[c].limitedAt + RetryWait

\* time passes; the clock is looked at when a retry timer runs out and one
\* default TTL later
Tick ==
    /\ call = "request"
    /\ \E d \in {RetryWait, DEFAULT_TTL} :
          /\ d = RetryWait => TimerPending
          /\ now + d <= MaxNow
          /\ now' = now + d
    /\ UNCHANGED <<cache, calls>>
    /\ ClientUnchanged

NextClient ==
    \/ \E c \in Callers : BeginRequest(c)
    \/ \E c \in Callers : FirstResponse(c)
    \/ \E c \in Callers : Retry(c)
    \/ \E c \in Callers : RetryResponse(c)
    \/ Tick

SpecClient == InitClient /\ [][NextClient]_vars

(***************************************************************************)
(* Claims about VidalyticsClient.request (checked under SpecClient)        *)
(***************************************************************************)
\* the response whose content the call stores and returns, if it got one
OkResponseOf(c) ==
    IF Ok(calls[c].res1.status) THEN calls[c].res1 ELSE calls[c].res2

\* at most 2 fetches, the second only after a 429 and the wait; a first
\* response that is a non-429 error, or a retry that is not ok, makes the
\* call throw; the call writes only the content of an ok response
RetriesOnce(c) ==
    /\ calls[c].fetches <= 2
    /\ calls[c].fetches = 2 =>
          /\ calls[c].res1.status = 429
          /\ calls[c].retriedAt >= calls[c].limitedAt + RetryWait
    /\ calls[c].pc \notin {"start", "fetch1"} =>
          /\ (~calls[c].res1.rejected /\ calls[c].res1.status # 429
                /\ calls[c].res1.status # 0 /\ ~Ok(calls[c].res1.status))
                => calls[c].pc = "thrown"
    /\ (calls[c].res2 # NoResponse /\ ~Ok(calls[c].res2.status))
          => calls[c].pc = "thrown"
    /\ calls[c].wrote =>
          /\ calls[c].pc = "returned"
          /\ Ok(OkResponseOf(c).status)
          /\ calls[c].stored.data = OkResponseOf(c).content
          /\ calls[c].result = OkResponseOf(c).content

\* every file of the directory is one an earlier run left or holds the
\* content of an ok response to a call for its key
FilesFromOkResponses ==
    \A k \in ClientKeys :
        \/ cache[k] \in InitialFiles
        \/ \E c \in Callers :
              /\ calls[c].key = k
              /\ calls[c].wrote
              /\ cache[k] = calls[c].stored

\* C28 as stated: request fetches at most twice (the second time only after
\* a 429 and the wait), throws on a first response that is a non-429 error
\* and on a retry that is not ok, writes only the content of an ok response,
\* and a call that throws leaves the cache entry of its key unchanged.
C28_AsStated ==
    /\ \A c \in Callers :
          /\ RetriesOnce(c)
          /\ calls[c].pc = "thrown" => (~calls[c].wrote /\ ~calls[c].removed)
    /\ FilesFromOkResponses

\* C28: request fetches at most twice (the second time only after a 429 and
\* the wait), throws on a first response that is a non-429 error and on a
\* retry that is not ok, writes only the content of an ok response, and a
\* call that throws writes nothing: the entry of its key is unchanged,
\* except that the cache lookup at the start of the call deletes an entry
\* that has expired.
C28_RetryOnceAndCacheOnlyOk ==
    /\ \A c \in Callers :
          /\ RetriesOnce(c)
          /\ calls[c].pc = "thrown" => ~calls[c].wrote
          /\ calls[c].removed =>
                (~calls[c].skipCache /\ calls[c].fetches >= 1)
    /\ FilesFromOkResponses

\* C28 witness: one call was rate limited, retried after the wait and threw on
\* the retry, the other stored an ok response for the same key, and the file
\* of the key holds that response.
C28_Witness ==
    \E c, e \in Callers :
        /\ calls[c].pc = "thrown"
        /\ calls[c].fetches = 2
        /\ calls[c].res2.status = 429
        /\ calls[e].key = calls[c].key
        /\ calls[e].wrote
        /\ cache[calls[c].key] = calls[e].stored

(***************************************************************************)
(* fetchInBatches (server.ts)                                              *)
(*                                                                         *)
(* items[k] tells whether thunk k catches its own failure, as the thunks   *)
(* of GET /api/videos do (it then resolves to null), or can reject.  A     *)
(* thunk that succeeds resolves to the stats of video k, written k.        *)
(***************************************************************************)
ItemKinds == {"caught", "raw"}

\* items.slice(i, i + batchSize), as positions of items
BatchItems(i) == {k \in 1..Len(items) : k > i /\ k <= i + batchSize}

InFlight == {k \in 1..Len(items) : itemState[k] = "inflight"}

IsSettled(k) == itemState[k] \in {"resolved", "null", "rejected"}

\* what a thunk resolves to after catching its failure
NullResult == 0

\* the value the call of thunk k resolved to
ItemResult(k) == IF itemState[k] = "resolved" THEN k ELSE NullResult

\* the positions in S in ascending order
RECURSIVE Ascending(_)
Ascending(S) ==
    IF S = {} THEN <<>>
    ELSE LET k == CHOOSE x \in S : \A y \in S : x <= y
         IN  <<k>> \o Ascending(S \ {k})

\* mutant: the results of a batch are collected as the calls settle
batchResults_asSettled(i) ==
    LET inBatch(k) == k \in BatchItems(i)
        order == SelectSeq(settled, inBatch)
    IN  [n \in 1..Len(order) |-> ItemResult(order[n])]

\* await Promise.all(batch.map((fn) => fn())): the results by position
batchResults(i) ==
    LET order == Ascending(BatchItems(i))
    IN  [n \in 1..Len(order) |-> ItemResult(order[n])]

(***************************************************************************)
(* Specification SpecBatches: one call of fetchInBatches                   *)
(***************************************************************************)
InitBatches ==
    /\ pc = "start"
    /\ call = "fetchInBatches"
    /\ \E n \in 0..MaxItems : items \in [1..n -> ItemKinds]
    /\ batchSize \in 1..MaxBatchSize
    /\ cursor = 0
    /\ itemState = [k \in 1..Len(items) |-> "idle"]
    /\ settled = <<>>
    /\ results = <<>>
    /\ delays = {}
    /\ fetchPc = "start"
    /\ metric = "none"
    /\ value = 0
    /\ value2 = 0
    /\ stats = NoStats
    /\ score = NoScore
    /\ score2 = NoScore
    /\ overallScore = NoScore
    /\ overallRating = "none"
    /\ points = <<>>
    /\ totalViewers = 0
    /\ drops = <<>>
    /\ recs = <<>>
    /\ metrics = <<>>
    /\ NoPortfolio
    /\ NoSegment
    /\ NoRequests
    /\ NoClient
    /\ NoCro

BatchesUnchanged ==
    UNCHANGED <<pc, call, metric, value, value2, score, score2, stats, overallScore,
                overallRating, points, totalViewers, drops, recs, metrics,
                portfolioVars, segmentVars, requestVars, clientVars, croVars>>

\* the loop body up to the await: every thunk of the batch at i is called
StartBatch(i) ==
    /\ cursor' = i
    /\ itemState' = [k \in 1..Len(items) |->
                        IF k \in BatchItems(i) THEN "inflight" ELSE itemState[k]]
    /\ fetchPc' = "await"

\* the call: an empty list returns at once, otherwise the first batch starts
FetchInBatches ==
    /\ call = "fetchInBatches"
    /\ fetchPc = "start"
    /\ IF Len(items) = 0
           THEN /\ fetchPc' = "returned"
                /\ UNCHANGED <<cursor, itemState>>
       ELSE StartBatch(0)
    /\ UNCHANGED <<items, batchSize, settled, results, delays>>
    /\ BatchesUnchanged

\* the promise of thunk k settles
Settle(k) ==
    /\ call = "fetchInBatches"
    /\ itemState[k] = "inflight"
    /\ \E outcome \in {"resolved", "failed"} :
          itemState' = [itemState EXCEPT ![k] =
                           IF outcome = "resolved" THEN "resolved"
                           ELSE IF items[k] = "caught" THEN "null"
                           ELSE "rejected"]
    /\ settled' = Append(settled, k)
    /\ UNCHANGED <<items, batchSize, cursor, results, delays, fetchPc>>
    /\ BatchesUnchanged

\* Promise.all resolved: the results are pushed, then the delay starts or,
\* after the last batch, the loop ends and the results are returned
BatchDone ==
    /\ call = "fetchInBatches"
    /\ fetchPc = "await"
    /\ \A k \in BatchItems(cursor) : itemState[k] \in {"resolved", "null"}
    /\ results' = results \o batchResults(cursor)
    /\ IF cursor + batchSize < Len(items)
           THEN /\ delays' = delays \cup {cursor}
                /\ fetchPc' = "delay"
       ELSE /\ delays' = delays
            /\ fetchPc' = "returned"
    /\ UNCHANGED <<items, batchSize, cursor, itemState, settled>>
    /\ BatchesUnchanged

\* Promise.all rejected: fetchInBatches throws, the other calls go on
BatchFailed ==
    /\ call = "fetchInBatches"
    /\ fetchPc = "await"
    /\ \E k \in BatchItems(cursor) : itemState[k] = "rejected"
    /\ fetchPc' = "thrown"
    /\ UNCHANGED <<items, batchSize, cursor, itemState, settled, results, delays>>
    /\ BatchesUnchanged

\* the delay is over: i += batchSize and the next batch starts
DelayOver ==
    /\ call = "fetchInBatches"
    /\ fetchPc = "delay"
    /\ StartBatch(cursor + batchSize)
    /\ UNCHANGED <<items, batchSize, settled, results, delays>>
    /\ BatchesUnchanged

NextBatches ==
    \/ FetchInBatches
    \/ \E k \in 1..Len(items) : Settle(k)
    \/ BatchDone
    \/ BatchFailed
    \/ DelayOver

SpecBatches == InitBatches /\ [][NextBatches]_vars

(***************************************************************************)
(* Claims about fetchInBatches (checked under SpecBatches)                 *)
(***************************************************************************)
\* the number of the batch thunk k belongs to, from 0
BatchOf(k) == (k - 1) \div batchSize

\* the values of i at which a batch starts
BatchStarts == {i \in 0..Len(items) : i % batchSize = 0 /\ i < Len(items)}

\* C29: never more than batchSize calls are in flight; no call of a later
\* batch has started while a call of an earlier batch is unsettled; a delay
\* is taken after a batch only if another batch follows, and a batch after
\* the first has started only after the delay that follows the batch before
\* it; and the returned array holds one result per item, results[i] being
\* the result of items[i], whatever order the calls settled in.
C29_SequentialBatches ==
    call = "fetchInBatches" =>
        /\ Cardinality(InFlight) <= batchSize
        /\ \A j, k \in 1..Len(items) :
              (BatchOf(j) < BatchOf(k) /\ itemState[k] # "idle") => IsSettled(j)
        /\ \A i \in delays : i \in BatchStarts /\ i + batchSize < Len(items)
        /\ \A k \in 1..Len(items) :
              (itemState[k] # "idle" /\ BatchOf(k) > 0)
                  => (BatchOf(k) - 1) * batchSize \in delays
        /\ fetchPc = "returned" =>
              /\ Len(results) = Len(items)
              /\ \A k \in 1..Len(items) : results[k] = ItemResult(k)
              /\ delays = {i \in BatchStarts : i + batchSize < Len(items)}

\* C29 witness: a call over several batches has returned although the calls
\* of a batch settled out of item order and one resolved to null; the last
\* batch was not followed by a delay.
C29_Witness ==
    /\ fetchPc = "returned"
    /\ Len(items) > 2 * batchSize
    /\ batchSize > 1
    /\ \E m, n \in 1..Len(settled) : m < n /\ settled[m] > settled[n]
    /\ \E k \in 1..Len(items) : itemState[k] = "null"
    /\ Cardinality(delays) = Cardinality(BatchStarts) - 1

(***************************************************************************)
(* GET /api/videos/:id/generate-cro-tests (server.ts) and generateCROTests *)
(* (claude.ts), for one video and one expert                               *)
(*                                                                         *)
(* The cache key of a batch is its number.  A generated batch holds one    *)
(* test; the data of its cache file is the name of that test.              *)
(***************************************************************************)
AI_CACHE_TTL == 604800

\* expert.croTests of the cached analysis, by test name
ExpertTests == <<"o1", "o2">>

\* the test the generator returns on its n-th call
GeneratedNames == <<"t1", "t2", "t3", "t4", "t5", "t6">>

\* server.ts:453-463: the scan from batch n on, reading the cache at time t
RECURSIVE ScanFrom(_, _, _, _)
ScanFrom(files, n, names, t) ==
    LET existingBatch == readCache(files, n, t)
    IN  IF existingBatch.data = Null
            THEN [nextBatch |-> n, names |-> names, files |-> existingBatch.files]
        ELSE ScanFrom(existingBatch.files, n + 1,
                      Append(names, existingBatch.data), t)

\* server.ts:445-463: allPreviousTestNames and nextBatch
ScanBatches(files, t) == ScanFrom(files, 1, ExpertTests, t)

(***************************************************************************)
(* Specification SpecCro: requests of two clients, and time passing        *)
(***************************************************************************)
CroClients == {"r1", "r2"}

Idle == [pc |-> "idle", batchNumber |-> 0, name |-> ""]

InitCro ==
    /\ pc = "start"
    /\ call = "generate-cro-tests"
    /\ cache = [n \in 1..(MaxGenerations + 1) |-> NoFile]
    /\ now = 0
    /\ calls = <<>>
    /\ croReqs = [c \in CroClients |-> Idle]
    /\ generations = <<>>
    /\ metric = "none"
    /\ value = 0
    /\ value2 = 0
    /\ stats = NoStats
    /\ score = NoScore
    /\ score2 = NoScore
    /\ overallScore = NoScore
    /\ overallRating = "none"
    /\ points = <<>>
    /\ totalViewers = 0
    /\ drops = <<>>
    /\ recs = <<>>
    /\ metrics = <<>>
    /\ NoPortfolio
    /\ NoSegment
    /\ NoRequests
    /\ NoBatches

CroUnchanged ==
    UNCHANGED <<pc, call, metric, value, value2, score, score2, stats, overallScore,
                overallRating, points, totalViewers, drops, recs, metrics,
                portfolioVars, segmentVars, requestVars, batchVars, calls>>

\* the route up to the await inside generateCROTests: the scan, the lookup
\* of the batch's own key (a miss, the scan has just ended on it) and the
\* request to the generator
GenerateCroTests(c) ==
    /\ call = "generate-cro-tests"
    /\ croReqs[c].pc = "idle"
    /\ Len(generations) < MaxGenerations
    /\ LET scan == ScanBatches(cache, now)
           cached == readCache(scan.files, scan.nextBatch, now)
       IN  /\ cached.data = Null
           /\ cache' = cached.files
           /\ croReqs' = [croReqs EXCEPT
                  ![c] = [pc |-> "generating", batchNumber |-> scan.nextBatch,
                          name |-> GeneratedNames[Len(generations) + 1]]]
           /\ generations' = Append(generations,
                  [batchNumber |-> scan.nextBatch,
                   allPreviousTestNames |-> scan.names,
                   files |-> cache, at |-> now])
    /\ now' = now
    /\ CroUnchanged

\* claude.ts:157-203: the generator answered and the batch is cached
GenerationComplete(c) ==
    /\ call = "generate-cro-tests"
    /\ croReqs[c].pc = "generating"
    /\ cache' = writeCache(cache, croReqs[c].batchNumber, croReqs[c].name,
                           AI_CACHE_TTL, now, TRUE)
    /\ croReqs' = [croReqs EXCEPT ![c] = Idle]
    /\ UNCHANGED <<now, generations>>
    /\ CroUnchanged

\* claude.ts:157-177: the generator failed or its answer did not parse
GenerationFailed(c) ==
    /\ call = "generate-cro-tests"
    /\ croReqs[c].pc = "generating"
    /\ croReqs' = [croReqs EXCEPT ![c] = Idle]
    /\ UNCHANGED <<cache, now, generations>>
    /\ CroUnchanged

\* a day passes
CroTick ==
    /\ call = "generate-cro-tests"
    /\ now + AI_CACHE_TTL \div 7 <= MaxDays * (AI_CACHE_TTL \div 7)
    /\ now' = now + AI_CACHE_TTL \div 7
    /\ UNCHANGED <<cache, croReqs, generations>>
    /\ CroUnchanged

NextCro ==
    \/ \E c \in CroClients : GenerateCroTests(c)
    \/ \E c \in CroClients : GenerationComplete(c)
    \/ \E c \in CroClients : GenerationFailed(c)
    \/ CroTick

SpecCro == InitCro /\ [][NextCro]_vars

(***************************************************************************)
(* Claims about generate-cro-tests (checked under SpecCro)                 *)
(***************************************************************************)
\* the batches with a live cache entry when generation g was requested
LiveBatches(g) ==
    {n \in DOMAIN g.files : g.files[n].exists /\ g.at <= g.files[n].expiresAt}

NamesOf(g) == {g.allPreviousTestNames[k] : k \in 1..Len(g.allPreviousTestNames)}

\* the batch number used is the smallest n >= 1 without a live entry
SmallestFreeBatch ==
    \A k \in 1..Len(generations) :
        LET g == generations[k]
        IN  /\ g.batchNumber >= 1
            /\ g.batchNumber \notin LiveBatches(g)
            /\ \A n \in 1..(g.batchNumber - 1) : n \in LiveBatches(g)

\* C30: whatever generations and expirations came before, the batch number
\* used is the smallest n >= 1 with no live cache entry, and the previous
\* test names handed to the generator hold the expert's original test names
\* and the test names of every batch still live in the cache.
C30_BatchNumberAndPreviousNames ==
    /\ SmallestFreeBatch
    /\ \A k \in 1..Len(generations) :
          LET g == generations[k]
          IN  /\ \A n \in 1..Len(ExpertTests) : ExpertTests[n] \in NamesOf(g)
              /\ \A n \in LiveBatches(g) : g.files[n].data \in NamesOf(g)

\* a generation requested while batch 1 had expired and batch 2 was live
C30_GapInBatches ==
    \E k \in 1..Len(generations) :
        /\ generations[k].batchNumber = 1
        /\ 2 \in LiveBatches(generations[k])

====
